---- MODULE Spec2Model ----
(***************************************************************************)
(* Verification model of the duckdb-elasticsearch extension:               *)
(*   - the retry client      (src/src/elasticsearch_client.cpp)            *)
(*   - the scan engine       (src/src/elasticsearch_query.cpp,             *)
(*                            src/src/elasticsearch_optimizer.cpp)         *)
(*   - the filter translator (src/src/elasticsearch_filter_pushdown.cpp)   *)
(*   - schema resolution     (src/src/elasticsearch_common.cpp,            *)
(*                            src/src/elasticsearch_cache.cpp)             *)
(* Each component has its own specification; the variables of the other    *)
(* components stay idle.                                                   *)
(***************************************************************************)
EXTENDS Integers, Sequences, FiniteSets, TLC

VARIABLES
    \* ---- retry client: one call of PerformRequestWithRetry ----
    rq_pc,          \* "idle" | "loop" (inside the while loop) | "returned"
    rq_method,      \* HTTP method of the call
    max_retries,    \* config_.max_retries
    retry_interval, \* config_.retry_interval (ms)
    backoff_factor, \* config_.retry_backoff_factor
    retry_count,    \* local retry_count
    backoff_ms,     \* local backoff_ms
    response,       \* local response (the value returned once rq_pc = "returned")
    rq_log,         \* history: the responses of the attempts made, in order
    rq_sleeps,      \* history: the sleeps performed, in order (ms)
    rq_outcomes,    \* history: the outcomes of the attempts made, in order
    should_log,     \* logger_ && logger_->ShouldLog(HTTP): HTTP tracing is enabled
    http_log,       \* the HTTP trace records written, in order
    log_faults,     \* the logger of the call: how many of the log writes of one
                    \* attempt it may fail, the first ones ({0}: it never throws)
    rq_faults       \* history: the log writes that threw in each attempt made

retryVars == <<rq_pc, rq_method, max_retries, retry_interval, backoff_factor,
               retry_count, backoff_ms, response, rq_log, rq_sleeps,
               rq_outcomes, should_log, http_log, log_faults, rq_faults>>

VARIABLES
    \* ---- scan engine: one elasticsearch_query scan ----
    sc_pc,          \* "idle" | "plan" | "optimized" | "scanning" | "failed"
    plan_limit,     \* the LIMIT operator above the scan (op: "absent" | "present" | "removed")
    bind_limit,     \* bind_data.limit  (-1 = no limit)
    bind_offset,    \* bind_data.offset
    scroll_id,      \* state.scroll_id (0 = empty string)
    finished,       \* state.finished
    current_row,    \* state.current_row
    hits,           \* state.hits: the documents of the current page
    current_hit_idx,\* state.current_hit_idx
    max_rows,       \* state.max_rows
    rows_to_skip,   \* state.rows_to_skip
    rows_skipped,   \* state.rows_skipped
    sc_torn_down,   \* the global state has been destroyed
    \* ---- the document store as seen by this scan ----
    store_docs,     \* number of matching documents; document i is the i-th in store order
    store_pos,      \* documents already served through the cursor
    store_size,     \* page size the cursor was opened with
    store_page_cap, \* largest page the store is able to return (0 = no cap)
    store_gives_token, \* the search response carries a _scroll_id
    store_rotates,  \* every scroll response carries a new _scroll_id
    store_token,    \* the _scroll_id of the most recent page response (0 = none)
    store_fail_at,  \* the n-th page request of the scan fails (0 = none)
    store_fail_kind, \* how it fails: the request fails, or its 200 reply is no JSON
    \* ---- history ----
    emitted,        \* documents handed to the engine, in order
    page_requests,  \* page requests sent (search and scroll refreshes), in order, each
                    \* with the number of rows emitted when it was sent
    close_requests, \* DELETE /_search/scroll requests sent: the tokens, in order
    sc_last_pull,   \* the most recent pull: finished at entry, rows returned, requests sent
    close_responses \* per ClearScroll call of the scan: the responses of its attempts

scanVars == <<sc_pc, plan_limit, bind_limit, bind_offset, scroll_id, finished, current_row,
              hits, current_hit_idx, max_rows, rows_to_skip, rows_skipped, sc_torn_down,
              store_docs, store_pos, store_size, store_page_cap, store_gives_token,
              store_rotates, store_token, store_fail_at, store_fail_kind,
              emitted, page_requests, close_requests, sc_last_pull, close_responses>>

VARIABLES
    \* ---- filter translation: one call of BuildFinalQuery ----
    ft_pc,          \* "idle" | "bound" (before the call) | "done"
    ft_column_ids,  \* input.column_ids: bind-schema column of every scanned column
    ft_filters,     \* input.filters: the pushed TableFilterSet, entries [col_idx, filter]
    ft_base_query,  \* bind_data.base_query
    ft_projection_ids, \* input.projection_ids: positions in column_ids of the output columns
    ft_all_column_names, \* bind_data.all_column_names (equal to bind_data.field_paths here)
    ft_result       \* outcome of the call: the query built, or the exception thrown

filterVars == <<ft_pc, ft_column_ids, ft_filters, ft_base_query, ft_projection_ids,
                ft_all_column_names, ft_result>>

VARIABLES
    \* ---- mapping merge: one call of MergeMappingsFromIndices ----
    mg_pc,          \* "idle" | "fetched" (mapping response parsed) | "done"
    mg_root,        \* the parsed mapping response: one entry per matched index, in order
    mg_result,      \* outcome of the call: the merged columns, or the exception thrown
    mg_text         \* text_fields and text_fields_with_keyword of the resolved schema

mergeVars == <<mg_pc, mg_root, mg_result, mg_text>>

VARIABLES
    \* ---- schema resolution: one call of ResolveElasticsearchSchema on a cache miss ----
    rs_pc,          \* "idle" | "call" (before the call) | "done"
    rs_root,        \* the mapping the store holds for the matched indices
    rs_mapping,     \* the mapping request: "ok" | "fail" | "unparseable"
    rs_sample_size, \* sample_size
    rs_docs,        \* the documents the sampling query matches, in store order
    rs_page_cap,    \* largest page the store is able to return (0 = no cap)
    rs_gives_token, \* page responses carry a _scroll_id
    rs_fault,       \* [kind, n]: the n-th sampling page request fails or is unparseable
    rs_close_status,\* status the store answers a DELETE /_search/scroll with (0 = no answer)
    rs_result,      \* outcome of the call: the schema, or the exception thrown
    rs_sample,      \* the SampleResult the call worked with, and the documents it inspected
    rs_requests     \* requests sent, in order: [kind, size, attempts, status, token]; attempts
                    \* counts the tries of a ClearScroll and is 0 for the requests that
                    \* go through PerformRequestWithRetry (status is their final status)

resolveVars == <<rs_pc, rs_root, rs_mapping, rs_sample_size, rs_docs, rs_page_cap,
                 rs_gives_token, rs_fault, rs_close_status, rs_result, rs_sample, rs_requests>>

\* The variables of schema resolution (mapping merge, resolver, bind cache).
VARIABLES
    \* ---- bind cache: resolver threads sharing ElasticsearchBindCache ----
    cache_,         \* the nodes the map has allocated, erased ones included:
                    \* [key, live, gen, all_column_names, all_column_types]
    mutex_,         \* the thread holding the cache mutex (0 = free)
    th,             \* per thread: position and locals of its ResolveElasticsearchSchema call
    store_version,  \* version of the mapping the store holds (what a fetch returns)
    setting_sample_size, \* the elasticsearch_sample_size setting
    created,        \* per key: the schema first stored since the last clear (0 = none)
    created_count,  \* per key: the schemas created and stored since the last clear
    clears          \* clears performed so far

cacheVars == <<cache_, mutex_, th, store_version, setting_sample_size, created, created_count,
               clears>>

\* The variables of the cache-key computation.
VARIABLES
    key_calls,      \* the two calls of BuildBindCacheKey compared: their arguments
    key_built       \* the keys built for them (<<>> before the calls)

keyVars == <<key_calls, key_built>>

schemaVars == <<mergeVars, resolveVars, cacheVars, keyVars>>

vars == <<retryVars, scanVars, filterVars, schemaVars>>

Min(a, b) == IF a <= b THEN a ELSE b

Last(s) == s[Len(s)]

(***************************************************************************)
(* Retry client                                                            *)
(***************************************************************************)

\* Largest max_retries setting explored.
MaxRetries == 3

\* max_retries settings explored (a negative setting is accepted by the bind code).
RetrySettings == (0 - 1)..MaxRetries

\* The outcome of an attempt that ends in the catch block of PerformRequest
\* (a std::exception thrown while the request is prepared or performed).
CaughtException == 0 - 1

\* Outcomes of one HTTP attempt: 0 stands for a failure below the HTTP layer
\* (curl_easy_perform did not return CURLE_OK), CaughtException for an
\* exception, any other value is the HTTP status.
Outcomes == {CaughtException, 0, 200, 201, 302, 400, 401, 404, 429, 500, 502, 503, 504}

\* Methods used by the callers of PerformRequestWithRetry.
Methods == {"GET", "POST"}

\* Mutant: 404 classified as transient.
RETRYABLE_STATUS_CODES_Mut404 == {404, 429, 500, 502, 503, 504}

RETRYABLE_STATUS_CODES == {429, 500, 502, 503, 504}

\* The body the store sends with its n-th reply of this call.
BodyOf(n) == "body" \o ToString(n)

\* A default-constructed ElasticsearchResponse with the two assignments
\* PerformRequest starts with.
EmptyResponse == [success |-> FALSE, status_code |-> 0, body |-> "", error_message |-> ""]

\* PerformRequest: one HTTP attempt whose outcome is `outcome`, the n-th of the call.
PerformRequest(method, outcome, n) ==
    IF outcome = CaughtException
    THEN [EmptyResponse EXCEPT !.error_message = "Exception during HTTP request: what"]
    ELSE IF outcome # 0
    THEN LET ok == (outcome >= 200 /\ outcome < 300)
         IN [success |-> ok,
             status_code |-> outcome,
             body |-> BodyOf(n),
             error_message |-> IF ok THEN ""
                               ELSE "HTTP " \o ToString(outcome) \o ": " \o BodyOf(n)]
    ELSE [EmptyResponse EXCEPT !.error_message = "HTTP " \o method \o " request failed: curl error"]

\* The number of log writes of one attempt that throw, counted from the first
\* (ConstructHTTPLogMessage or WriteLog raising a std::exception).
LogFaults == 0..2

\* The log write in the catch block throws as well (or, when the attempt
\* itself ended in the catch block, the only write does): the exception leaves
\* PerformRequest and PerformRequestWithRetry.
LogEscapes(outcome, log_on, fault) ==
    log_on /\ (IF outcome = CaughtException THEN fault >= 1 ELSE fault >= 2)

\* What PerformRequest returns: the log write after the transfer is inside the
\* try block, so when it throws the catch block overwrites error_message and
\* leaves the other members as the transfer set them.
LoggedResponse(method, outcome, n, log_on, fault) ==
    IF log_on /\ fault >= 1 /\ outcome # CaughtException
    THEN [PerformRequest(method, outcome, n) EXCEPT
              !.error_message = "Exception during HTTP request: what"]
    ELSE PerformRequest(method, outcome, n)

\* The trace records PerformRequest writes for one attempt: with tracing
\* enabled one record after the transfer (with the status received, 0 when
\* none was); when the attempt or that write throws, one in the catch block
\* (status 0); a write that throws leaves no record.
HTTPLog(method, outcome, log_on, fault) ==
    IF ~log_on \/ LogEscapes(outcome, log_on, fault)
    THEN <<>>
    ELSE IF outcome = CaughtException \/ fault >= 1
         THEN <<[type |-> method, status |-> 0]>>
         ELSE <<[type |-> method, status |-> PerformRequest(method, outcome, 1).status_code]>>

\* should_retry as computed after a failed attempt.
ShouldRetry(resp) ==
    IF resp.status_code > 0
    THEN resp.status_code \in RETRYABLE_STATUS_CODES
    ELSE TRUE

\* Mutant: the loop gives up one retry early.
RetryBreak_MutEarly(should_retry, count, maxr) == (~should_retry) \/ count + 1 >= maxr

\* The break condition of the retry loop.
RetryBreak(should_retry, count, maxr) == (~should_retry) \/ count >= maxr

\* Mutant: the annotation reports the number of attempts instead of retries.
Annotate_MutAttempts(resp, count) ==
    IF count > 0 /\ ~resp.success
    THEN [resp EXCEPT !.error_message = @ \o " (after " \o ToString(count + 1) \o " retries)"]
    ELSE resp

\* The retry annotation added after the loop.
Annotate(resp, count) ==
    IF count > 0 /\ ~resp.success
    THEN [resp EXCEPT !.error_message = @ \o " (after " \o ToString(count) \o " retries)"]
    ELSE resp

\* The default of the elasticsearch_max_retries setting.
DefaultMaxRetries == 3

\* Mutant: the cleanup request goes through the retry loop.
ClearScroll_MutRetried(status) ==
    LET resp == PerformRequest("DELETE", status, 1)
    IN IF ~resp.success /\ ShouldRetry(resp)
       THEN [n \in 1..(DefaultMaxRetries + 1) |-> PerformRequest("DELETE", status, n)]
       ELSE <<resp>>

\* ElasticsearchClient::ClearScroll against a store that answers every DELETE
\* with `status`: the responses of the attempts made, in order.
ClearScroll(status) == <<PerformRequest("DELETE", status, 1)>>

\* One iteration of the while loop: the attempt, the classification of its
\* outcome and, when the loop goes on, the sleep and the backoff update.  An
\* exception that leaves PerformRequest ends the call.
Attempt(outcome, fault) ==
    /\ rq_pc = "loop"
    /\ retry_count <= max_retries
    /\ rq_outcomes' = Append(rq_outcomes, outcome)
    /\ rq_faults' = Append(rq_faults, IF should_log THEN fault ELSE 0)
    /\ http_log' = http_log \o HTTPLog(rq_method, outcome, should_log, fault)
    /\ IF LogEscapes(outcome, should_log, fault)
       THEN /\ rq_pc' = "thrown"
            /\ UNCHANGED <<response, rq_log, retry_count, backoff_ms, rq_sleeps>>
       ELSE LET resp == LoggedResponse(rq_method, outcome, Len(rq_log) + 1, should_log, fault)
            IN /\ rq_log' = Append(rq_log, resp)
               /\ IF resp.success
                  THEN /\ response' = resp
                       /\ rq_pc' = "returned"
                       /\ UNCHANGED <<retry_count, backoff_ms, rq_sleeps>>
                  ELSE IF RetryBreak(ShouldRetry(resp), retry_count, max_retries)
                       THEN /\ response' = Annotate(resp, retry_count)
                            /\ rq_pc' = "returned"
                            /\ UNCHANGED <<retry_count, backoff_ms, rq_sleeps>>
                       ELSE /\ response' = resp
                            /\ rq_sleeps' = Append(rq_sleeps, backoff_ms)
                            /\ backoff_ms' = backoff_ms * backoff_factor
                            /\ retry_count' = retry_count + 1
                            /\ rq_pc' = "loop"
    /\ UNCHANGED <<rq_method, max_retries, retry_interval, backoff_factor, should_log,
                   log_faults>>

\* The value of a member that was never assigned: whatever the build leaves in
\* it (any bool representation for success, any int32 for status_code).
Indeterminate == "indeterminate"

\* The local response of PerformRequestWithRetry before the first attempt:
\* default-constructed, so body and error_message are empty and success and
\* status_code are not initialised.
UnassignedResponse ==
    [success |-> Indeterminate, status_code |-> Indeterminate, body |-> "", error_message |-> ""]

\* The loop condition is false on entry (negative max_retries): no attempt is
\* made and the default-constructed response is returned (retry_count is 0,
\* so the annotation does not read it).
ReturnWithoutAttempt ==
    /\ rq_pc = "loop"
    /\ retry_count > max_retries
    /\ response' = Annotate(UnassignedResponse, retry_count)
    /\ rq_pc' = "returned"
    /\ UNCHANGED <<rq_method, max_retries, retry_interval, backoff_factor,
                   retry_count, backoff_ms, rq_log, rq_sleeps,
                   rq_outcomes, should_log, http_log, log_faults, rq_faults>>

\* A call of PerformRequestWithRetry about to enter its loop.
InitCall ==
    /\ rq_pc = "loop"
    /\ rq_method \in Methods
    /\ max_retries \in RetrySettings
    /\ retry_interval = 100
    /\ backoff_factor = 2
    /\ retry_count = 0
    /\ backoff_ms = retry_interval
    /\ response = UnassignedResponse
    /\ rq_log = <<>>
    /\ rq_sleeps = <<>>
    /\ rq_outcomes = <<>>
    /\ should_log \in BOOLEAN
    /\ http_log = <<>>
    /\ rq_faults = <<>>

\* Calls whose logger, when there is one, never throws.
InitRetryVars ==
    /\ InitCall
    /\ log_faults = {0}

\* Calls with any logger: each log write may throw.
InitTraceVars ==
    /\ InitCall
    /\ log_faults = LogFaults

IdleRetryVars ==
    /\ rq_pc = "idle"
    /\ rq_method = "GET"
    /\ max_retries = 0
    /\ retry_interval = 100
    /\ backoff_factor = 2
    /\ retry_count = 0
    /\ backoff_ms = 100
    /\ response = EmptyResponse
    /\ rq_log = <<>>
    /\ rq_sleeps = <<>>
    /\ rq_outcomes = <<>>
    /\ should_log = FALSE
    /\ http_log = <<>>
    /\ log_faults = {0}
    /\ rq_faults = <<>>

\* No pull has been made yet.
NoPull == [at_finished |-> FALSE, rows |-> 0, requests |-> 0]

IdleScanVars ==
    /\ sc_pc = "idle"
    /\ plan_limit = [op |-> "absent", limit_type |-> "UNSET", limit_val |-> 0,
                     offset_type |-> "UNSET", offset_val |-> 0]
    /\ bind_limit = 0 - 1
    /\ bind_offset = 0
    /\ scroll_id = 0
    /\ finished = FALSE
    /\ current_row = 0
    /\ hits = <<>>
    /\ current_hit_idx = 0
    /\ max_rows = 0 - 1
    /\ rows_to_skip = 0
    /\ rows_skipped = 0
    /\ sc_torn_down = FALSE
    /\ store_docs = 0
    /\ store_pos = 0
    /\ store_size = 0
    /\ store_page_cap = 0
    /\ store_gives_token = TRUE
    /\ store_rotates = FALSE
    /\ store_token = 0
    /\ store_fail_at = 0
    /\ store_fail_kind = "failed"
    /\ emitted = <<>>
    /\ page_requests = <<>>
    /\ close_requests = <<>>
    /\ sc_last_pull = NoPull
    /\ close_responses = <<>>

NoSource == [present |-> FALSE, fields |-> <<>>]

NoResult == [thrown |-> FALSE, field |-> "", query |-> [q |-> "none"],
             es_query |-> [q |-> "none"], must |-> <<>>, source |-> NoSource]

IdleFilterVars ==
    /\ ft_pc = "idle"
    /\ ft_column_ids = <<>>
    /\ ft_filters = {}
    /\ ft_base_query = ""
    /\ ft_projection_ids = <<>>
    /\ ft_all_column_names = <<>>
    /\ ft_result = NoResult

IdleMergeVars ==
    /\ mg_pc = "idle"
    /\ mg_root = <<>>
    /\ mg_result = [thrown |-> FALSE, done |-> FALSE]
    /\ mg_text = [text_fields |-> {}, text_fields_with_keyword |-> {}]

\* A SampleResult with nothing detected.
EmptySample == [array_fields |-> {}, has_unmapped_fields |-> FALSE, sampled |-> {}]

IdleResolveVars ==
    /\ rs_pc = "idle"
    /\ rs_root = <<>>
    /\ rs_mapping = "ok"
    /\ rs_sample_size = 0
    /\ rs_docs = <<>>
    /\ rs_page_cap = 0
    /\ rs_gives_token = TRUE
    /\ rs_fault = [kind |-> "none", n |-> 0]
    /\ rs_close_status = 200
    /\ rs_result = [thrown |-> FALSE, done |-> FALSE]
    /\ rs_sample = EmptySample
    /\ rs_requests = <<>>

\* The locals of a resolver thread that has not called yet.
IdleThread ==
    [pc |-> "idle", key |-> "", cached |-> 0, gen |-> 0, schema |-> 0,
     all_column_names |-> 0, all_column_types |-> 0, hit |-> FALSE, requests |-> 0,
     thrown |-> FALSE, dangling |-> FALSE, racy |-> FALSE, expected |-> 0,
     cleared |-> FALSE, calls |-> 0, sampling_failed |-> FALSE, scroll_id |-> FALSE,
     scrolls |-> 0, mapping_version |-> 0, sample_version |-> 0, pages |-> 0]

IdleCacheVars ==
    /\ cache_ = <<>>
    /\ mutex_ = 0
    /\ th = <<>>
    /\ store_version = 0
    /\ setting_sample_size = 0
    /\ created = <<>>
    /\ created_count = <<>>
    /\ clears = 0

IdleKeyVars ==
    /\ key_calls = <<>>
    /\ key_built = <<>>

IdleSchemaVars == IdleMergeVars /\ IdleResolveVars /\ IdleCacheVars /\ IdleKeyVars

InitRetry == InitRetryVars /\ IdleScanVars /\ IdleFilterVars /\ IdleSchemaVars

NextRetry ==
    \/ \E outcome \in Outcomes, fault \in log_faults :
          Attempt(outcome, fault) /\ UNCHANGED <<scanVars, filterVars, schemaVars>>
    \/ ReturnWithoutAttempt /\ UNCHANGED <<scanVars, filterVars, schemaVars>>

SpecRetry == InitRetry /\ [][NextRetry]_vars

\* The same calls with a logger that may throw.
InitTrace == InitTraceVars /\ IdleScanVars /\ IdleFilterVars /\ IdleSchemaVars

SpecTrace == InitTrace /\ [][NextRetry]_vars

(***************************************************************************)
(* Scan engine                                                             *)
(***************************************************************************)

\* Largest constant LIMIT and OFFSET in the plans explored.
MaxLimit == 5
MaxOffset == 3

\* Largest number of matching documents in the store.
MaxDocs == 10

\* Largest page cap of a store that returns short pages.
MaxPageCap == 2

\* The latest page request of a scan that may fail.
MaxFailAt == 2

\* Capacity of one output chunk (2048 in a default build of the engine); kept
\* small here so that a scan needs several pulls.
STANDARD_VECTOR_SIZE == 2

\* int64_t batch_size = 1000;
DefaultBatchSize == 1000

\* if (query_limit > 0 && query_limit <= 5000)
SmallLimitMax == 5000

LimitNodeTypes == {"UNSET", "CONSTANT_VALUE", "EXPRESSION_VALUE"}

\* Constant limits at the threshold of the batch size rule, which together with
\* the offsets put limit + offset on both sides of it.
LargeLimits == {SmallLimitMax - 1, SmallLimitMax}

\* The plans explored: no LIMIT operator, or LIMIT -> PROJECTION* -> GET with
\* each of limit and offset unset, constant or an expression.
Plans ==
    [op : {"absent"}, limit_type : {"UNSET"}, limit_val : {0},
     offset_type : {"UNSET"}, offset_val : {0}]
    \cup
    { p \in [op : {"present"}, limit_type : LimitNodeTypes,
             limit_val : (0..MaxLimit) \cup LargeLimits,
             offset_type : LimitNodeTypes, offset_val : 0..MaxOffset] :
        /\ (p.limit_type # "CONSTANT_VALUE" => p.limit_val = 0)
        /\ (p.offset_type # "CONSTANT_VALUE" => p.offset_val = 0) }

\* limit_value as extracted by the optimizer (-1 when the LIMIT is not a constant).
LimitValue(p) == IF p.limit_type = "CONSTANT_VALUE" THEN p.limit_val ELSE 0 - 1

\* offset_value as extracted by the optimizer (0 when the OFFSET is not a constant).
OffsetValue(p) == IF p.offset_type = "CONSTANT_VALUE" THEN p.offset_val ELSE 0

\* can_pushdown: neither value is an expression or a percentage.
CanPushdown(p) ==
    /\ p.limit_type \in {"CONSTANT_VALUE", "UNSET"}
    /\ p.offset_type \in {"CONSTANT_VALUE", "UNSET"}

\* The condition under which the optimizer stores limit and offset in the bind
\* data and removes the LIMIT operator.
PushesLimit(p) ==
    /\ p.op = "present"
    /\ CanPushdown(p)
    /\ (LimitValue(p) > 0 \/ OffsetValue(p) > 0)

\* OptimizeLimitPushdownRecursive on the LIMIT operator above the scan.
OptimizeLimitPushdown ==
    /\ sc_pc = "plan"
    /\ IF PushesLimit(plan_limit)
       THEN /\ bind_limit' = LimitValue(plan_limit)
            /\ bind_offset' = OffsetValue(plan_limit)
            /\ plan_limit' = [plan_limit EXCEPT !.op = "removed"]
       ELSE UNCHANGED <<bind_limit, bind_offset, plan_limit>>
    /\ sc_pc' = "optimized"
    /\ UNCHANGED <<scroll_id, finished, current_row, hits, current_hit_idx, max_rows,
                   rows_to_skip, rows_skipped, sc_torn_down, store_docs, store_pos,
                   store_size, store_page_cap, store_gives_token, store_rotates,
                   store_token, store_fail_at, store_fail_kind, emitted, page_requests,
                   close_requests, sc_last_pull, close_responses>>

\* query_limit as computed by ElasticsearchQueryInitGlobal.
QueryLimit(limit, offset) ==
    IF limit > 0 /\ offset > 0 THEN limit + offset ELSE limit

\* Mutant: the default batch size whatever the limit.
BatchSize_MutDefault(limit, offset) == DefaultBatchSize

\* batch_size as computed by ElasticsearchQueryInitGlobal.
BatchSize(limit, offset) ==
    IF QueryLimit(limit, offset) > 0 /\ QueryLimit(limit, offset) <= SmallLimitMax
    THEN QueryLimit(limit, offset)
    ELSE DefaultBatchSize

\* The page the store returns when `pos` documents were served before: the next
\* documents in store order, at most `size` of them (and at most the store's
\* page cap when it has one).
StorePage(pos, size) ==
    LET k0 == Min(size, store_docs - pos)
        k  == IF store_page_cap = 0 THEN k0 ELSE Min(k0, store_page_cap)
    IN [i \in 1..k |-> pos + i]

\* Mutant: the destructor clears the scroll without looking at scroll_id.
DestructorClose_MutAlways(has_client, sid) == IF has_client THEN <<sid>> ELSE <<>>

\* ~ElasticsearchQueryGlobalState: the close requests the destructor sends.
DestructorClose(has_client, sid) ==
    IF has_client /\ sid # 0 THEN <<sid>> ELSE <<>>

\* ElasticsearchQueryInitGlobal: sets up the state, sends the search that opens
\* the cursor and stores the first page.  A failed or unparseable response
\* throws, which destroys the state that was being built.
InitGlobal ==
    /\ sc_pc = "optimized"
    /\ max_rows' = bind_limit
    /\ rows_to_skip' = bind_offset
    /\ rows_skipped' = 0
    /\ LET batch_size == BatchSize(bind_limit, bind_offset)
       IN /\ page_requests' = Append(page_requests,
                                     [kind |-> "search", size |-> batch_size, token |-> 0,
                                      row |-> 0])
          /\ IF store_fail_at = Len(page_requests) + 1
             THEN /\ sc_pc' = "failed"
                  /\ sc_torn_down' = TRUE
                  /\ close_requests' = close_requests \o DestructorClose(TRUE, scroll_id)
                  /\ UNCHANGED <<scroll_id, finished, hits, store_pos, store_size, store_token>>
             ELSE LET page == StorePage(0, batch_size)
                      tok  == IF store_gives_token THEN 1 ELSE 0
                  IN /\ store_size' = batch_size
                     /\ store_pos' = Len(page)
                     /\ store_token' = tok
                     /\ scroll_id' = tok
                     /\ hits' = page
                     /\ finished' = (page = <<>>)
                     /\ sc_pc' = "scanning"
                     /\ UNCHANGED <<sc_torn_down, close_requests>>
    /\ UNCHANGED <<plan_limit, bind_limit, bind_offset, current_row, current_hit_idx,
                   store_docs, store_page_cap, store_gives_token, store_rotates,
                   store_fail_at, store_fail_kind, emitted, sc_last_pull, close_responses>>

\* The while loop of ElasticsearchQueryScan.  st holds the fields of the state
\* the loop changes, the rows written to the output chunk, the store's cursor
\* and the requests sent; st.thrown is set when the loop leaves by an exception:
\* a failed scroll request throws before the page held is released, a reply
\* that is no JSON after docs and hits were cleared.
RECURSIVE ScanLoop(_, _)
ScanLoop(st, max_output) ==
    IF st.thrown \/ st.finished \/ ~(Len(st.output) < max_output)
    THEN st
    ELSE IF st.current_hit_idx >= Len(st.hits)
    THEN IF max_rows > 0 /\ st.current_row >= max_rows
         THEN [st EXCEPT !.finished = TRUE]
         ELSE IF scroll_id = 0
         THEN [st EXCEPT !.finished = TRUE]
         ELSE LET reqs == Append(st.reqs, [kind |-> "scroll", size |-> 0, token |-> scroll_id,
                                         row |-> st.current_row])
              IN IF store_fail_at = Len(reqs)
                 THEN IF store_fail_kind = "failed"
                      THEN [st EXCEPT !.reqs = reqs, !.thrown = TRUE]
                      ELSE [st EXCEPT !.reqs = reqs, !.hits = <<>>, !.thrown = TRUE]
                 ELSE LET page == StorePage(st.store_pos, store_size)
                          st2  == [st EXCEPT !.reqs = reqs,
                                             !.hits = page,
                                             !.current_hit_idx = 0,
                                             !.store_pos = @ + Len(page),
                                             !.store_token = IF store_rotates THEN @ + 1 ELSE @]
                      IN IF page = <<>>
                         THEN [st2 EXCEPT !.finished = TRUE]
                         ELSE ScanLoop(st2, max_output)
    ELSE IF st.rows_skipped < rows_to_skip
    THEN ScanLoop([st EXCEPT !.current_hit_idx = @ + 1, !.rows_skipped = @ + 1], max_output)
    ELSE ScanLoop([st EXCEPT !.output = Append(@, st.hits[st.current_hit_idx + 1]),
                             !.current_hit_idx = @ + 1,
                             !.current_row = @ + 1], max_output)

\* max_output: the chunk capacity, reduced to the rows the limit still allows.
MaxOutput(maxr, row) ==
    IF maxr > 0 THEN Min(maxr - row, STANDARD_VECTOR_SIZE) ELSE STANDARD_VECTOR_SIZE

\* Mutant: a pull does not consult the finished flag.
ScanCall_MutIgnoreFinished(st0) ==
    ScanLoop([st0 EXCEPT !.finished = FALSE], MaxOutput(max_rows, st0.current_row))

\* The body of ElasticsearchQueryScan on the fields of the state: the two early
\* returns, then the loop.
ScanCall(st0) ==
    IF st0.finished THEN st0
    ELSE IF max_rows > 0 /\ st0.current_row >= max_rows THEN [st0 EXCEPT !.finished = TRUE]
    ELSE ScanLoop(st0, MaxOutput(max_rows, st0.current_row))

\* ElasticsearchQueryScan: one pull of the engine.  sc_last_pull records what
\* the pull found and did: whether the scan was finished at entry, the
\* cardinality of the output chunk and the number of requests sent.
Scan ==
    /\ sc_pc = "scanning"
    /\ ~sc_torn_down
    /\ LET st0 == [finished |-> finished, current_row |-> current_row, hits |-> hits,
                   current_hit_idx |-> current_hit_idx, rows_skipped |-> rows_skipped,
                   output |-> <<>>, store_pos |-> store_pos, store_token |-> store_token,
                   reqs |-> page_requests, thrown |-> FALSE]
           st1 == ScanCall(st0)
       IN /\ finished' = st1.finished
          /\ current_row' = st1.current_row
          /\ hits' = st1.hits
          /\ current_hit_idx' = st1.current_hit_idx
          /\ rows_skipped' = st1.rows_skipped
          /\ store_pos' = st1.store_pos
          /\ store_token' = st1.store_token
          /\ page_requests' = st1.reqs
          /\ emitted' = IF st1.thrown THEN emitted ELSE emitted \o st1.output
          /\ sc_pc' = IF st1.thrown THEN "failed" ELSE "scanning"
          /\ sc_last_pull' = [at_finished |-> finished,
                              rows |-> IF st1.thrown THEN 0 ELSE Len(st1.output),
                              requests |-> Len(st1.reqs) - Len(page_requests)]
    /\ UNCHANGED <<plan_limit, bind_limit, bind_offset, scroll_id, max_rows, rows_to_skip,
                   sc_torn_down, store_docs, store_size, store_page_cap, store_gives_token,
                   store_rotates, store_fail_at, store_fail_kind, close_requests,
                   close_responses>>

\* The answers of the store to a DELETE /_search/scroll that the model explores:
\* success, cursor already gone, overloaded, no answer.
CloseStatuses == {200, 404, 503, 0}

\* The engine destroys the global state: when the query has finished, failed or
\* was abandoned.
Teardown ==
    /\ sc_pc \in {"scanning", "failed"}
    /\ ~sc_torn_down
    /\ sc_torn_down' = TRUE
    /\ close_requests' = close_requests \o DestructorClose(TRUE, scroll_id)
    /\ \E status \in CloseStatuses :
          close_responses' = close_responses \o
              [i \in 1..Len(DestructorClose(TRUE, scroll_id)) |-> ClearScroll(status)]
    /\ UNCHANGED <<sc_pc, plan_limit, bind_limit, bind_offset, scroll_id, finished,
                   current_row, hits, current_hit_idx, max_rows, rows_to_skip, rows_skipped,
                   store_docs, store_pos, store_size, store_page_cap, store_gives_token,
                   store_rotates, store_token, store_fail_at, store_fail_kind, emitted,
                   page_requests,
                   sc_last_pull>>

InitScanVars ==
    /\ sc_pc = "plan"
    /\ plan_limit \in Plans
    /\ bind_limit = 0 - 1
    /\ bind_offset = 0
    /\ scroll_id = 0
    /\ finished = FALSE
    /\ current_row = 0
    /\ hits = <<>>
    /\ current_hit_idx = 0
    /\ max_rows = 0 - 1
    /\ rows_to_skip = 0
    /\ rows_skipped = 0
    /\ sc_torn_down = FALSE
    /\ store_docs \in 0..MaxDocs
    /\ store_pos = 0
    /\ store_size = 0
    /\ store_page_cap \in 0..MaxPageCap
    /\ store_gives_token \in BOOLEAN
    /\ store_rotates \in BOOLEAN
    /\ store_token = 0
    /\ store_fail_at \in 0..MaxFailAt
    \* the request fails (transport error or non-2xx status), or it is answered
    \* 200 with a body that is no JSON
    /\ store_fail_kind \in (IF store_fail_at = 0 THEN {"failed"}
                            ELSE {"failed", "unparseable"})
    /\ emitted = <<>>
    /\ page_requests = <<>>
    /\ close_requests = <<>>
    /\ sc_last_pull = NoPull
    /\ close_responses = <<>>

InitScan == InitScanVars /\ IdleRetryVars /\ IdleFilterVars /\ IdleSchemaVars

NextScan ==
    \/ OptimizeLimitPushdown /\ UNCHANGED <<retryVars, filterVars, schemaVars>>
    \/ InitGlobal /\ UNCHANGED <<retryVars, filterVars, schemaVars>>
    \/ Scan /\ UNCHANGED <<retryVars, filterVars, schemaVars>>
    \/ Teardown /\ UNCHANGED <<retryVars, filterVars, schemaVars>>

SpecScan == InitScan /\ [][NextScan]_vars

(***************************************************************************)
(* Filter translator                                                       *)
(* Strings that the translator inspects or rewrites (patterns, values) are *)
(* sequences of one-character strings; field names are strings.            *)
(* Queries are records: q names the clause ("term", "range", "exists",     *)
(* "terms", "prefix", "wildcard", "bool_must", "bool_should",              *)
(* "bool_must_not", "match_all", "raw" for the user's base query).         *)
(***************************************************************************)

\* Longest LIKE pattern explored exhaustively.
MaxPatLen == 3

\* Most children of a conjunction filter.
MaxChildren == 2

\* A translator returning nullptr.
NULLPTR == [q |-> "nullptr"]

\* A translator leaving by InvalidInputException("Cannot filter on text field '%s' ...").
ThrowUnsafe(field_name) == [q |-> "throw", exception |-> "InvalidInputException", field |-> field_name]

IsNullptr(r) == r.q = "nullptr"

IsThrow(r) == r.q = "throw"

\* The bind data the translator consults: the bind schema after _id, the text
\* fields (top-level and nested) and those of them with a .keyword sub-field.
MappedColumnNames == <<"title", "body", "status", "meta">>

\* The end of ElasticsearchQueryBind: a schema without columns gets the
\* VARCHAR column _source, whose field path is "_source".
BindColumns(mapped_column_names) ==
    IF mapped_column_names = <<>> THEN <<"_source">> ELSE mapped_column_names

all_column_names == ft_all_column_names

text_fields == {"title", "body", "meta.note"}

text_fields_with_keyword == {"title"}

\* Mutant: the .keyword sub-field is never targeted.
GetElasticsearchFieldName_MutBase(column_name, is_text_field, has_keyword_subfield) == column_name

\* GetElasticsearchFieldName
GetElasticsearchFieldName(column_name, is_text_field, has_keyword_subfield) ==
    IF is_text_field /\ has_keyword_subfield THEN column_name \o ".keyword" ELSE column_name

\* DuckDBValueToJSON, for the value types of the constants explored.
DuckDBValueToJSON(value) ==
    IF value.is_null THEN [json |-> "null", v |-> <<>>]
    ELSE IF value.type = "INTEGER" THEN [json |-> "sint", v |-> value.v]
    ELSE IF value.type = "VARCHAR" THEN [json |-> "string", v |-> value.v]
    ELSE [json |-> "string", v |-> value.v]

\* {"term": {es_field: value}}
TermQuery(es_field, value) == [q |-> "term", field |-> es_field, value |-> value]

\* {"range": {es_field: {bound: value}}}
RangeQuery(es_field, bound, value) ==
    [q |-> "range", field |-> es_field, bound |-> bound, value |-> value]

\* {"bool": {"must_not": clause}}
MustNot(clause) == [q |-> "bool_must_not", clause |-> clause]

\* TranslateConstantComparison
TranslateConstantComparison(filter, field_name, is_text_field, has_keyword_subfield) ==
    IF is_text_field /\ ~has_keyword_subfield
    THEN ThrowUnsafe(field_name)
    ELSE LET es_field == GetElasticsearchFieldName(field_name, is_text_field, has_keyword_subfield)
             value == DuckDBValueToJSON(filter.constant)
         IN CASE filter.comparison_type = "COMPARE_EQUAL" -> TermQuery(es_field, value)
              [] filter.comparison_type = "COMPARE_NOTEQUAL" -> MustNot(TermQuery(es_field, value))
              [] filter.comparison_type = "COMPARE_GREATERTHAN" -> RangeQuery(es_field, "gt", value)
              [] filter.comparison_type = "COMPARE_GREATERTHANOREQUALTO" -> RangeQuery(es_field, "gte", value)
              [] filter.comparison_type = "COMPARE_LESSTHAN" -> RangeQuery(es_field, "lt", value)
              [] filter.comparison_type = "COMPARE_LESSTHANOREQUALTO" -> RangeQuery(es_field, "lte", value)
              [] OTHER -> NULLPTR

\* TranslateIsNotNull: {"exists": {"field": name}}
TranslateIsNotNull(field_name) == [q |-> "exists", field |-> field_name]

\* TranslateIsNull: {"bool": {"must_not": {"exists": {"field": name}}}}
TranslateIsNull(field_name) == MustNot([q |-> "exists", field |-> field_name])

\* Values of a sequence through f, in order.
MapSeq(f(_), seq) == [i \in 1..Len(seq) |-> f(seq[i])]

\* TranslateInFilter
TranslateInFilter(filter, field_name, is_text_field, has_keyword_subfield) ==
    IF is_text_field /\ ~has_keyword_subfield
    THEN ThrowUnsafe(field_name)
    ELSE [q |-> "terms",
          field |-> GetElasticsearchFieldName(field_name, is_text_field, has_keyword_subfield),
          values |-> MapSeq(DuckDBValueToJSON, filter.values)]

\* std::string::find(c): position of the first c, counted from 1 (0 = npos).
Find(str, c) ==
    IF \E i \in 1..Len(str) : str[i] = c
    THEN CHOOSE i \in 1..Len(str) : str[i] = c /\ \A j \in 1..(i - 1) : str[j] # c
    ELSE 0

\* std::string::rfind(c): position of the last c, counted from 1 (0 = npos).
RFind(str, c) ==
    IF \E i \in 1..Len(str) : str[i] = c
    THEN CHOOSE i \in 1..Len(str) : str[i] = c /\ \A j \in (i + 1)..Len(str) : str[j] # c
    ELSE 0

\* The loop converting a LIKE pattern to an Elasticsearch wildcard pattern.
RECURSIVE ConvertLikePattern(_, _, _, _)
ConvertLikePattern(pattern, i, escape_next, es_pattern) ==
    IF i > Len(pattern) THEN es_pattern
    ELSE LET c == pattern[i]
         IN IF escape_next
            THEN ConvertLikePattern(pattern, i + 1, FALSE,
                     IF c = "*" \/ c = "?" THEN es_pattern \o <<"\\", c>> ELSE Append(es_pattern, c))
            ELSE CASE c = "%" -> ConvertLikePattern(pattern, i + 1, FALSE, Append(es_pattern, "*"))
                   [] c = "_" -> ConvertLikePattern(pattern, i + 1, FALSE, Append(es_pattern, "?"))
                   [] c = "\\" -> ConvertLikePattern(pattern, i + 1, TRUE, es_pattern)
                   [] c = "*" \/ c = "?" ->
                          ConvertLikePattern(pattern, i + 1, FALSE, es_pattern \o <<"\\", c>>)
                   [] OTHER -> ConvertLikePattern(pattern, i + 1, FALSE, Append(es_pattern, c))

\* {"prefix"|"wildcard": {es_field: {"value": value, "case_insensitive": true}}};
\* case_insensitive = FALSE stands for a clause without that key.
PatternQuery(kind, es_field, value, case_insensitive) ==
    [q |-> kind, field |-> es_field, value |-> value, case_insensitive |-> case_insensitive]

\* Mutant: the .keyword sub-field is not used for pattern matching.
LikeField_MutBase(field_name, is_text_field, has_keyword_subfield) == field_name

\* The field TranslateLikePattern puts in the query.
LikeField(field_name, is_text_field, has_keyword_subfield) ==
    IF is_text_field /\ has_keyword_subfield THEN field_name \o ".keyword" ELSE field_name

\* TranslateLikePattern
TranslateLikePattern(field_name, pattern, is_text_field, has_keyword_subfield, case_insensitive) ==
    IF is_text_field /\ ~has_keyword_subfield
    THEN ThrowUnsafe(field_name)
    ELSE LET es_field == LikeField(field_name, is_text_field, has_keyword_subfield)
             has_percent == Find(pattern, "%") # 0
             has_underscore == Find(pattern, "_") # 0
             percent_pos == Find(pattern, "%")
         IN IF ~has_percent /\ ~has_underscore
            THEN TermQuery(es_field, [json |-> "string", v |-> pattern])
            ELSE IF has_percent /\ ~has_underscore
                    /\ percent_pos = Len(pattern)
                    /\ Find(pattern, "%") = RFind(pattern, "%")
            THEN PatternQuery("prefix", es_field, SubSeq(pattern, 1, percent_pos - 1), case_insensitive)
            ELSE PatternQuery("wildcard", es_field,
                              ConvertLikePattern(pattern, 1, FALSE, <<>>), case_insensitive)

LikeFunctions == {"~~", "like_escape", "~~*", "ilike_escape"}

StringFunctions == {"prefix", "suffix", "contains"}

\* The second argument of a function expression is a VARCHAR constant.
HasVarcharConstant(expr) ==
    /\ Len(expr.children) >= 2
    /\ expr.children[2].type = "VALUE_CONSTANT"
    /\ expr.children[2].value_type = "VARCHAR"

\* TranslateExpressionFilter, for the expressions explored (no geospatial functions).
TranslateExpressionFilter(filter, column_name, is_text_field, has_keyword_subfield) ==
    LET expr == filter.expr
    IN IF expr.type # "BOUND_FUNCTION" THEN NULLPTR
       ELSE IF expr.name \in LikeFunctions /\ HasVarcharConstant(expr)
       THEN TranslateLikePattern(column_name, expr.children[2].value, is_text_field,
                                 has_keyword_subfield, expr.name \in {"~~*", "ilike_escape"})
       ELSE IF expr.name \in StringFunctions /\ HasVarcharConstant(expr)
       THEN LET value == expr.children[2].value
                pattern == IF expr.name = "prefix" THEN value \o <<"%">>
                           ELSE IF expr.name = "suffix" THEN <<"%">> \o value
                           ELSE <<"%">> \o value \o <<"%">>
            IN TranslateLikePattern(column_name, pattern, is_text_field, has_keyword_subfield, FALSE)
       ELSE NULLPTR

RECURSIVE TranslateFilter(_, _)
RECURSIVE CollectTranslated(_, _, _, _)

\* The loop of a conjunction over its children: the translated children in
\* order, the untranslatable ones left out; an exception ends the loop.
CollectTranslated(child_filters, column_name, i, arr) ==
    IF i > Len(child_filters) THEN [q |-> "arr", items |-> arr]
    ELSE LET translated == TranslateFilter(child_filters[i], column_name)
         IN IF IsThrow(translated) THEN translated
            ELSE CollectTranslated(child_filters, column_name, i + 1,
                                   IF IsNullptr(translated) THEN arr ELSE Append(arr, translated))

\* TranslateConjunctionAnd
TranslateConjunctionAnd(filter, column_name) ==
    LET must_arr == CollectTranslated(filter.child_filters, column_name, 1, <<>>)
    IN IF IsThrow(must_arr) THEN must_arr
       ELSE IF Len(must_arr.items) = 0 THEN NULLPTR
       ELSE IF Len(must_arr.items) = 1 THEN must_arr.items[1]
       ELSE [q |-> "bool_must", clauses |-> must_arr.items]

\* TranslateConjunctionOr
TranslateConjunctionOr(filter, column_name) ==
    LET should_arr == CollectTranslated(filter.child_filters, column_name, 1, <<>>)
    IN IF IsThrow(should_arr) THEN should_arr
       ELSE IF Len(should_arr.items) = 0 THEN NULLPTR
       ELSE IF Len(should_arr.items) = 1 THEN should_arr.items[1]
       ELSE [q |-> "bool_should", clauses |-> should_arr.items, minimum_should_match |-> 1]

\* TranslateFilter
TranslateFilter(filter, column_name) ==
    LET is_text_field == column_name \in text_fields
        has_keyword_subfield == column_name \in text_fields_with_keyword
    IN CASE filter.filter_type = "CONSTANT_COMPARISON" ->
                TranslateConstantComparison(filter, column_name, is_text_field, has_keyword_subfield)
         [] filter.filter_type = "IS_NULL" -> TranslateIsNull(column_name)
         [] filter.filter_type = "IS_NOT_NULL" -> TranslateIsNotNull(column_name)
         [] filter.filter_type = "CONJUNCTION_AND" -> TranslateConjunctionAnd(filter, column_name)
         [] filter.filter_type = "CONJUNCTION_OR" -> TranslateConjunctionOr(filter, column_name)
         [] filter.filter_type = "IN_FILTER" ->
                TranslateInFilter(filter, column_name, is_text_field, has_keyword_subfield)
         [] filter.filter_type = "EXPRESSION_FILTER" ->
                TranslateExpressionFilter(filter, column_name, is_text_field, has_keyword_subfield)
         [] filter.filter_type = "STRUCT_EXTRACT" ->
                TranslateFilter(filter.child_filter, column_name \o "." \o filter.child_name)
         [] OTHER -> NULLPTR

\* The entry of a filter set with the smallest column index (std::map order).
FirstEntry(entries) == CHOOSE e \in entries : \A f \in entries : e.col_idx <= f.col_idx

\* The loop of TranslateFilters over the filter set: [col_idx, clause] for every
\* filter that was translated, in column order; an exception ends the loop.
RECURSIVE TranslateEntries(_, _, _)
TranslateEntries(entries, column_names, must_arr) ==
    IF entries = {} THEN [q |-> "arr", items |-> must_arr]
    ELSE LET entry == FirstEntry(entries)
             rest == entries \ {entry}
         IN IF entry.col_idx >= Len(column_names)
            THEN TranslateEntries(rest, column_names, must_arr)
            ELSE LET translated == TranslateFilter(entry.filter, column_names[entry.col_idx + 1])
                 IN IF IsThrow(translated) THEN translated
                    ELSE TranslateEntries(rest, column_names,
                             IF IsNullptr(translated) THEN must_arr
                             ELSE Append(must_arr, [col_idx |-> entry.col_idx, clause |-> translated]))

\* TranslateFilters: es_query is the translated query (nullptr when nothing was
\* translated); must lists the clauses it was built from.
TranslateFilters(filters, column_names) ==
    IF filters = {} THEN [q |-> "result", es_query |-> NULLPTR, must |-> <<>>]
    ELSE LET must_arr == TranslateEntries(filters, column_names, <<>>)
         IN IF IsThrow(must_arr) THEN must_arr
            ELSE LET clauses == [i \in 1..Len(must_arr.items) |-> must_arr.items[i].clause]
                 IN [q |-> "result",
                     es_query |-> IF Len(clauses) = 0 THEN NULLPTR
                                  ELSE IF Len(clauses) = 1 THEN clauses[1]
                                  ELSE [q |-> "bool_must", clauses |-> clauses],
                     must |-> must_arr.items]

\* The name BuildFinalQuery gives the translator for bind-schema column col_id.
FilterColumnName(col_id) ==
    IF col_id = 0 THEN "_id"
    ELSE IF col_id <= Len(all_column_names) THEN all_column_names[col_id]
    ELSE "_unmapped_"

\* yyjson_read of the base query: nullptr when it is not valid JSON.
ParseBaseQuery(base_query) ==
    IF base_query = "{\"match\":{\"title\":\"x\"}}" THEN [q |-> "raw", json |-> base_query]
    ELSE NULLPTR

\* The merge of base query and filter clause in BuildFinalQuery.
MergeQuery(base_query_clause, filter_clause) ==
    IF ~IsNullptr(base_query_clause) /\ ~IsNullptr(filter_clause)
    THEN [q |-> "bool_must", clauses |-> <<base_query_clause, filter_clause>>]
    ELSE IF ~IsNullptr(base_query_clause) THEN base_query_clause
    ELSE IF ~IsNullptr(filter_clause) THEN filter_clause
    ELSE [q |-> "match_all"]

\* bind_data.field_paths: the path of every mapped column, in schema order.
bind_field_paths == all_column_names

\* output_column_indices: the positions in column_ids of the output columns.
OutputColumnIndices(column_ids, projection_ids) ==
    IF projection_ids = <<>> THEN 0..(Len(column_ids) - 1)
    ELSE {projection_ids[i] : i \in 1..Len(projection_ids)}

\* needs_full_source: an output column is the _unmapped_ column.
NeedsFullSource(column_ids, projection_ids) ==
    \E i \in 0..(Len(column_ids) - 1) :
        /\ i \in OutputColumnIndices(column_ids, projection_ids)
        /\ column_ids[i + 1] > Len(bind_field_paths)

\* source_fields: the paths collected from position i of column_ids on.
RECURSIVE SourceFields(_, _, _)
SourceFields(column_ids, projection_ids, i) ==
    IF i >= Len(column_ids) THEN <<>>
    ELSE LET rest == SourceFields(column_ids, projection_ids, i + 1)
             col_id == column_ids[i + 1]
         IN IF i \notin OutputColumnIndices(column_ids, projection_ids) THEN rest
            ELSE IF col_id = 0 THEN rest
            ELSE IF col_id - 1 < Len(bind_field_paths)
            THEN <<bind_field_paths[col_id]>> \o rest
            ELSE rest

\* The "_source" member of the request body: absent, or the list of paths.
SourceProjection(column_ids, projection_ids) ==
    IF column_ids # <<>> /\ ~NeedsFullSource(column_ids, projection_ids)
       /\ SourceFields(column_ids, projection_ids, 0) # <<>>
    THEN [present |-> TRUE, fields |-> SourceFields(column_ids, projection_ids, 0)]
    ELSE NoSource

\* BuildFinalQuery (the "query" and "_source" members): called by
\* ElasticsearchQueryInitGlobal with the pushed filters; an exception of the
\* translator leaves through it.
BuildFinalQuery ==
    /\ ft_pc = "bound"
    /\ LET base_query_clause == IF ft_base_query # "" THEN ParseBaseQuery(ft_base_query) ELSE NULLPTR
           filter_column_names == MapSeq(FilterColumnName, ft_column_ids)
           translation_result == TranslateFilters(ft_filters, filter_column_names)
       IN ft_result' =
             IF IsThrow(translation_result)
             THEN [thrown |-> TRUE, field |-> translation_result.field, query |-> [q |-> "none"],
                   es_query |-> [q |-> "none"], must |-> <<>>, source |-> NoSource]
             ELSE [thrown |-> FALSE, field |-> "",
                   query |-> MergeQuery(base_query_clause, translation_result.es_query),
                   es_query |-> translation_result.es_query,
                   must |-> translation_result.must,
                   source |-> SourceProjection(ft_column_ids, ft_projection_ids)]
    /\ ft_pc' = "done"
    /\ UNCHANGED <<ft_column_ids, ft_filters, ft_base_query, ft_projection_ids,
                   ft_all_column_names>>

(***************************************************************************)
(* Inputs of the filter translator                                         *)
(***************************************************************************)

\* Characters of the patterns explored: two letters, the two SQL wildcards,
\* the escape character and an Elasticsearch wildcard.
PatternAlphabet == {"a", "b", "%", "_", "\\", "*"}

\* The patterns quoted by the documentation.
NamedPatterns == {<<"a", "b", "c", "%">>, <<"a", "%", "b", "_", "c">>, <<"a", "\\", "%", "b">>}

Patterns == UNION {[1..n -> PatternAlphabet] : n \in 0..MaxPatLen} \cup NamedPatterns

ColumnRef == [type |-> "BOUND_COLUMN_REF", value_type |-> "VARCHAR", value |-> <<>>]

VarcharConstant(str) == [type |-> "VALUE_CONSTANT", value_type |-> "VARCHAR", value |-> str]

\* A function expression name(column, 'pattern'); the *_escape forms carry the
\* escape character as a third argument.
FunctionExpr(name, pattern) ==
    [type |-> "BOUND_FUNCTION", name |-> name,
     children |-> IF name \in {"like_escape", "ilike_escape"}
                  THEN <<ColumnRef, VarcharConstant(pattern), VarcharConstant(<<"\\">>)>>
                  ELSE <<ColumnRef, VarcharConstant(pattern)>>]

ExpressionFilter(expr) == [filter_type |-> "EXPRESSION_FILTER", expr |-> expr]

\* Expressions with a pattern: LIKE and ILIKE in both spellings, the rewritten
\* forms, and a function the translator does not know.
PatternFilters ==
    {ExpressionFilter(FunctionExpr(name, pattern)) :
        name \in LikeFunctions \cup StringFunctions \cup {"regexp_matches"}, pattern \in Patterns}

\* Expressions the translator does not recognise: a non-constant pattern and a
\* non-function expression.
OpaqueExpressionFilters ==
    {ExpressionFilter([type |-> "BOUND_FUNCTION", name |-> "~~", children |-> <<ColumnRef, ColumnRef>>]),
     ExpressionFilter([type |-> "BOUND_COMPARISON", name |-> "", children |-> <<>>])}

VarcharValue(str) == [is_null |-> FALSE, type |-> "VARCHAR", v |-> str]

IntegerValue(digits) == [is_null |-> FALSE, type |-> "INTEGER", v |-> digits]

ConstantValues == {VarcharValue(<<"x">>), IntegerValue(<<"7">>)}

SupportedComparisons ==
    {"COMPARE_EQUAL", "COMPARE_NOTEQUAL", "COMPARE_GREATERTHAN", "COMPARE_GREATERTHANOREQUALTO",
     "COMPARE_LESSTHAN", "COMPARE_LESSTHANOREQUALTO"}

ComparisonTypes == SupportedComparisons \cup {"COMPARE_DISTINCT_FROM"}

ConstantFilter(comparison_type, constant) ==
    [filter_type |-> "CONSTANT_COMPARISON", comparison_type |-> comparison_type, constant |-> constant]

InFilter(values) == [filter_type |-> "IN_FILTER", values |-> values]

IsNullFilter == [filter_type |-> "IS_NULL"]

IsNotNullFilter == [filter_type |-> "IS_NOT_NULL"]

\* Filter types the translator has no case for.
UnsupportedFilters == {[filter_type |-> "DYNAMIC_FILTER"], [filter_type |-> "OPTIONAL_FILTER"]}

LeafFilters ==
    {ConstantFilter(t, c) : t \in ComparisonTypes, c \in ConstantValues}
    \cup {IsNullFilter, IsNotNullFilter}
    \cup {InFilter(<<VarcharValue(<<"x">>), VarcharValue(<<"y">>)>>)}
    \cup UnsupportedFilters
    \cup PatternFilters
    \cup OpaqueExpressionFilters

\* The leaves used as children of conjunctions and in filter sets with two entries.
SmallLeafFilters ==
    {ConstantFilter("COMPARE_EQUAL", VarcharValue(<<"x">>)),
     ConstantFilter("COMPARE_GREATERTHAN", IntegerValue(<<"7">>)),
     ConstantFilter("COMPARE_DISTINCT_FROM", VarcharValue(<<"x">>)),
     IsNullFilter,
     InFilter(<<VarcharValue(<<"x">>), VarcharValue(<<"y">>)>>),
     ExpressionFilter(FunctionExpr("~~", <<"a", "%">>)),
     ExpressionFilter(FunctionExpr("~~*", <<"a">>)),
     [filter_type |-> "DYNAMIC_FILTER"]}

ConjunctionTypes == {"CONJUNCTION_AND", "CONJUNCTION_OR"}

ConjunctionFilter(filter_type, child_filters) ==
    [filter_type |-> filter_type, child_filters |-> child_filters]

ChildLists(leaves) == UNION {[1..n -> leaves] : n \in 1..MaxChildren}

FlatConjunctions ==
    {ConjunctionFilter(t, cs) : t \in ConjunctionTypes, cs \in ChildLists(SmallLeafFilters)}

TinyLeafFilters ==
    {ConstantFilter("COMPARE_EQUAL", VarcharValue(<<"x">>)), IsNullFilter, [filter_type |-> "DYNAMIC_FILTER"]}

\* A conjunction whose first child is itself a conjunction.
NestedConjunctions ==
    {ConjunctionFilter(t, <<ConjunctionFilter(u, cs), c>>) :
        t \in ConjunctionTypes, u \in ConjunctionTypes,
        cs \in [1..2 -> TinyLeafFilters], c \in TinyLeafFilters}

StructFilters ==
    {[filter_type |-> "STRUCT_EXTRACT", child_name |-> n, child_filter |-> f] :
        n \in {"note", "tag"}, f \in SmallLeafFilters}

AllFilters == LeafFilters \cup FlatConjunctions \cup NestedConjunctions \cup StructFilters

\* The scanned columns of the queries explored (indices into the bind schema
\* [_id, title, body, status, meta, _unmapped_]).
ColumnIdChoices == {<<0, 1, 2, 3, 4, 5>>, <<3, 1, 2>>}

\* The filter sets explored for a column list: empty, one entry with any
\* filter, or two entries with small leaves.
FilterSets(column_ids) ==
    LET idxs == 0..(Len(column_ids) - 1)
    IN {{}}
       \cup {{[col_idx |-> i, filter |-> f]} : i \in idxs, f \in AllFilters}
       \cup UNION {{{[col_idx |-> i, filter |-> f], [col_idx |-> j, filter |-> g]} :
                       j \in idxs \ {i}, f \in SmallLeafFilters, g \in SmallLeafFilters} :
                    i \in idxs}

BaseQueries == {"", "{\"match\":{\"title\":\"x\"}}", "{\"match\":"}

\* Largest number of scanned columns in the queries whose output columns are
\* varied.
MaxScanColumns == 3

\* The scanned columns of those queries: up to MaxScanColumns distinct columns
\* of the bind schema, in any order.
ProjectedColumnIds ==
    UNION {{cs \in [1..n -> 0..(Len(bind_field_paths) + 1)] :
               \A i, j \in 1..n : i # j => cs[i] # cs[j]} : n \in 0..MaxScanColumns}

\* projection_ids for a column list: empty (every scanned column is an output
\* column) or the positions of the output columns, in any order.
ProjectionIds(column_ids) ==
    LET idxs == 0..(Len(column_ids) - 1)
    IN {<<>>} \cup UNION {{ps \in [1..n -> idxs] :
                              \A i, j \in 1..n : i # j => ps[i] # ps[j]} :
                          n \in 1..(Len(column_ids) - 1)}

\* The filters pushed on a column that is not an output column.
FilterOnlyFilters ==
    {ConstantFilter("COMPARE_EQUAL", VarcharValue(<<"x">>)), IsNullFilter}

\* The filter sets of those queries: none, or one entry on a scanned column.
ProjectedFilterSets(column_ids) ==
    {{}} \cup {{[col_idx |-> i, filter |-> f]} :
                  i \in 0..(Len(column_ids) - 1), f \in FilterOnlyFilters}

InitFilterVars ==
    /\ ft_pc = "bound"
    /\ ft_result = NoResult
    /\ \/ /\ ft_all_column_names = BindColumns(MappedColumnNames)
          /\ ft_column_ids \in ColumnIdChoices
          /\ ft_projection_ids = <<>>
          /\ ft_filters \in FilterSets(ft_column_ids)
          /\ ft_base_query \in BaseQueries
       \/ /\ ft_all_column_names = BindColumns(MappedColumnNames)
          /\ ft_column_ids \in ProjectedColumnIds
          /\ ft_projection_ids \in ProjectionIds(ft_column_ids)
          /\ ft_filters \in ProjectedFilterSets(ft_column_ids)
          /\ ft_base_query = ""
       \/ /\ ft_all_column_names = BindColumns(<<>>)
          /\ ft_column_ids \in ProjectedColumnIds
          /\ ft_projection_ids \in ProjectionIds(ft_column_ids)
          /\ ft_filters = {}
          /\ ft_base_query \in BaseQueries

InitFilter == InitFilterVars /\ IdleRetryVars /\ IdleScanVars /\ IdleSchemaVars

NextFilter == BuildFinalQuery /\ UNCHANGED <<retryVars, scanVars, schemaVars>>

SpecFilter == InitFilter /\ [][NextFilter]_vars

(***************************************************************************)
(* Mapping merge                                                           *)
(* A DuckDB type is a record: [id |-> "VARCHAR"] and the other primitives, *)
(* [id |-> "STRUCT", children |-> <<[name, type], ...>>] and               *)
(* [id |-> "LIST", child |-> type].  A field definition of a mapping is    *)
(* [type, has_properties, properties, keyword_subfield]: type "" when the   *)
(* definition has no "type" key, properties a sequence of [name, def] in   *)
(* document order, keyword_subfield whether "fields" holds a "keyword"     *)
(* object of type keyword.                                                 *)
(***************************************************************************)

Prim(id) == [id |-> id]

StructOf(children) == [id |-> "STRUCT", children |-> children]

ListOf(child) == [id |-> "LIST", child |-> child]

VARCHAR == Prim("VARCHAR")

\* The primitive type BuildDuckDBTypeFromMapping gives an explicit "type".
PrimitiveTypeOf(es_type) ==
    CASE es_type \in {"text", "keyword", "string"} -> VARCHAR
      [] es_type = "long" -> Prim("BIGINT")
      [] es_type = "integer" -> Prim("INTEGER")
      [] es_type = "short" -> Prim("SMALLINT")
      [] es_type = "byte" -> Prim("TINYINT")
      [] es_type = "double" -> Prim("DOUBLE")
      [] es_type \in {"float", "half_float"} -> Prim("FLOAT")
      [] es_type = "boolean" -> Prim("BOOLEAN")
      [] es_type = "date" -> Prim("TIMESTAMP")
      [] es_type = "ip" -> VARCHAR
      [] es_type \in {"geo_point", "geo_shape"} -> VARCHAR
      [] OTHER -> VARCHAR

\* BuildDuckDBTypeFromMapping and BuildStructTypeFromProperties (mutually
\* recursive in the code).
RECURSIVE BuildDuckDBTypeFromMapping(_)
BuildStructTypeFromProperties(properties) ==
    LET struct_children ==
            [i \in 1..Len(properties) |->
                [name |-> properties[i].name,
                 type |-> BuildDuckDBTypeFromMapping(properties[i].def)]]
    IN IF struct_children = <<>> THEN VARCHAR ELSE StructOf(struct_children)

\* Mutant: a field declared "nested" without properties is a plain VARCHAR.
NestedWithoutProperties_MutScalar == VARCHAR

\* The type of a field declared "nested" that has no "properties".
NestedWithoutProperties == ListOf(VARCHAR)

BuildDuckDBTypeFromMapping(field_def) ==
    IF field_def.has_properties THEN BuildStructTypeFromProperties(field_def.properties)
    ELSE IF field_def.type = "" THEN VARCHAR
    ELSE IF field_def.type = "nested" THEN NestedWithoutProperties
    ELSE IF field_def.type = "object" THEN VARCHAR
    ELSE PrimitiveTypeOf(field_def.type)

\* The es_type string ParseMapping records for a field.
EsTypeOf(field_def) ==
    IF field_def.type # "" THEN field_def.type
    ELSE IF field_def.has_properties THEN "object"
    ELSE ""

\* ParseMapping with an empty prefix: one column per top-level field.
ParseMapping(properties) ==
    [i \in 1..Len(properties) |->
        [name |-> properties[i].name,
         type |-> BuildDuckDBTypeFromMapping(properties[i].def),
         path |-> properties[i].name,
         es_type |-> EsTypeOf(properties[i].def)]]

\* CollectAllMappedPaths: every path of the mapping, nested ones included.
RECURSIVE CollectAllMappedPaths(_, _)
CollectAllMappedPaths(properties, prefix) ==
    UNION {LET full_path == IF prefix = "" THEN properties[i].name
                            ELSE prefix \o "." \o properties[i].name
           IN {full_path} \cup
              (IF properties[i].def.has_properties
               THEN CollectAllMappedPaths(properties[i].def.properties, full_path)
               ELSE {}) : i \in 1..Len(properties)}

\* Position of the child called name in a child list (0 = none).
ChildIndex(children, name) ==
    IF \E i \in 1..Len(children) : children[i].name = name
    THEN CHOOSE i \in 1..Len(children) : children[i].name = name
    ELSE 0

\* Mutant: struct children are never looked at.
AreTypesCompatible_MutShallow(type1, type2) ==
    type1 = type2 \/ type1.id = type2.id

RECURSIVE AreTypesCompatible(_, _)
AreTypesCompatible(type1, type2) ==
    IF type1 = type2 THEN TRUE
    ELSE IF type1.id # type2.id THEN FALSE
    ELSE IF type1.id = "STRUCT"
    THEN \A i \in 1..Len(type1.children) :
            LET j == ChildIndex(type2.children, type1.children[i].name)
            IN j # 0 => AreTypesCompatible(type1.children[i].type, type2.children[j].type)
    ELSE IF type1.id = "LIST" THEN AreTypesCompatible(type1.child, type2.child)
    ELSE FALSE

\* Mutant: the children of the second struct that the first lacks are dropped.
MergeStructTypes_MutFirstOnly(type1, type2) == type1

RECURSIVE MergeStructTypes(_, _)
MergeStructTypes(type1, type2) ==
    IF type1.id # "STRUCT" \/ type2.id # "STRUCT" THEN type1
    ELSE LET children1 == type1.children
             children2 == type2.children
             kept == [i \in 1..Len(children1) |->
                        LET j == ChildIndex(children2, children1[i].name)
                        IN IF j # 0 /\ children1[i].type.id = "STRUCT"
                                    /\ children2[j].type.id = "STRUCT"
                           THEN [name |-> children1[i].name,
                                 type |-> MergeStructTypes(children1[i].type, children2[j].type)]
                           ELSE children1[i]]
             IsNew(child) == ChildIndex(children1, child.name) = 0
         IN StructOf(kept \o SelectSeq(children2, IsNew))

\* The exception MergeMappingsFromIndices raises.
IncompatibleFieldTypes(field_path, first_index, first_type, index_name, type) ==
    [thrown |-> TRUE, done |-> TRUE, field_path |-> field_path,
     first_index |-> first_index, first_type |-> first_type,
     index_name |-> index_name, type |-> type]

\* Position of field_path in the merged fields (0 = not seen yet).
MergedIndex(merged_fields, field_path) ==
    IF \E i \in 1..Len(merged_fields) : merged_fields[i].path = field_path
    THEN CHOOSE i \in 1..Len(merged_fields) : merged_fields[i].path = field_path
    ELSE 0

\* The inner loop of MergeMappingsFromIndices: the fields of one index, from
\* the i-th on, merged into merged_fields (kept in insertion order).
RECURSIVE MergeIndexFields(_, _, _, _)
MergeIndexFields(merged_fields, index_name, idx_cols, i) ==
    IF i > Len(idx_cols) THEN [thrown |-> FALSE, merged_fields |-> merged_fields]
    ELSE LET col == idx_cols[i]
             k   == MergedIndex(merged_fields, col.path)
         IN IF k = 0
            THEN MergeIndexFields(
                     Append(merged_fields, [path |-> col.path, name |-> col.name,
                                            type |-> col.type, es_type |-> col.es_type,
                                            first_index |-> index_name]),
                     index_name, idx_cols, i + 1)
            ELSE IF ~AreTypesCompatible(merged_fields[k].type, col.type)
            THEN IncompatibleFieldTypes(col.path, merged_fields[k].first_index,
                                        merged_fields[k].type, index_name, col.type)
            ELSE IF merged_fields[k].type.id = "STRUCT" /\ col.type.id = "STRUCT"
            THEN MergeIndexFields(
                     [merged_fields EXCEPT ![k].type = MergeStructTypes(@, col.type)],
                     index_name, idx_cols, i + 1)
            ELSE MergeIndexFields(merged_fields, index_name, idx_cols, i + 1)

\* The outer loop: the indices of the response from the n-th on.
RECURSIVE MergeIndices(_, _, _, _)
MergeIndices(merged_fields, all_mapped_paths, root, n) ==
    IF n > Len(root)
    THEN [thrown |-> FALSE, merged_fields |-> merged_fields,
          all_mapped_paths |-> all_mapped_paths]
    ELSE IF ~root[n].has_properties
    THEN MergeIndices(merged_fields, all_mapped_paths, root, n + 1)
    ELSE LET r == MergeIndexFields(merged_fields, root[n].index_name,
                                   ParseMapping(root[n].properties), 1)
         IN IF r.thrown THEN r
            ELSE MergeIndices(r.merged_fields,
                              all_mapped_paths \cup CollectAllMappedPaths(root[n].properties, ""),
                              root, n + 1)

\* field_path.rfind(ch) from position i down: the position of the last
\* occurrence of ch, 0 when there is none.
RECURSIVE Rfind(_, _, _)
Rfind(str, ch, i) ==
    IF i = 0 THEN 0
    ELSE IF SubSeq(str, i, i) = ch THEN i
    ELSE Rfind(str, ch, i - 1)

\* The column name of a field: the last component of its path, what follows
\* the last '.'.
ColumnName(path) ==
    LET dot == Rfind(path, ".", Len(path))
    IN IF dot # 0 THEN SubSeq(path, dot + 1, Len(path)) ELSE path

\* MergeMappingsFromIndices: the output vectors, or the exception.
MergeMappingsFromIndices(root) ==
    LET r == MergeIndices(<<>>, {}, root, 1)
    IN IF r.thrown THEN r
       ELSE [thrown |-> FALSE, done |-> TRUE,
             all_column_names |->
                 [i \in 1..Len(r.merged_fields) |-> ColumnName(r.merged_fields[i].path)],
             all_column_types |-> [i \in 1..Len(r.merged_fields) |-> r.merged_fields[i].type],
             field_paths |-> [i \in 1..Len(r.merged_fields) |-> r.merged_fields[i].path],
             es_types |-> [i \in 1..Len(r.merged_fields) |-> r.merged_fields[i].es_type],
             all_mapped_paths |-> r.all_mapped_paths]

\* CollectAllPathTypes: the declared type of every path of one index, added to
\* path_types; a path already present takes the type declared here.
RECURSIVE CollectAllPathTypes(_, _, _, _)
CollectAllPathTypes(properties, prefix, path_types, i) ==
    IF i > Len(properties) THEN path_types
    ELSE LET full_path == IF prefix = "" THEN properties[i].name
                          ELSE prefix \o "." \o properties[i].name
         IN CollectAllPathTypes(
                properties, prefix,
                IF properties[i].def.has_properties
                THEN CollectAllPathTypes(
                         properties[i].def.properties, full_path,
                         IF properties[i].def.type # ""
                         THEN (full_path :> properties[i].def.type) @@ path_types
                         ELSE path_types,
                         1)
                ELSE IF properties[i].def.type # ""
                THEN (full_path :> properties[i].def.type) @@ path_types
                ELSE path_types,
                i + 1)

\* CollectTextFieldsWithKeyword: the paths one index declares as text with a
\* .keyword sub-field of type keyword.
RECURSIVE CollectTextFieldsWithKeyword(_, _)
CollectTextFieldsWithKeyword(properties, prefix) ==
    UNION {LET full_path == IF prefix = "" THEN properties[i].name
                            ELSE prefix \o "." \o properties[i].name
           IN (IF properties[i].def.type = "text" /\ properties[i].def.keyword_subfield
               THEN {full_path} ELSE {})
              \cup (IF properties[i].def.has_properties
                    THEN CollectTextFieldsWithKeyword(properties[i].def.properties, full_path)
                    ELSE {}) : i \in 1..Len(properties)}

\* The loop of ResolveElasticsearchSchema over the indices of the response,
\* from the n-th on: all_path_types.
RECURSIVE AllPathTypes(_, _, _)
AllPathTypes(root, path_types, n) ==
    IF n > Len(root) THEN path_types
    ELSE AllPathTypes(root,
                      IF root[n].has_properties
                      THEN CollectAllPathTypes(root[n].properties, "", path_types, 1)
                      ELSE path_types,
                      n + 1)

\* text_fields: the columns whose es_type is text and the paths whose entry
\* in all_path_types is text.
TextFields(merged, all_path_types) ==
    {merged.all_column_names[i] :
        i \in {j \in 1..Len(merged.all_column_names) : merged.es_types[j] = "text"}}
    \cup {path \in DOMAIN all_path_types : all_path_types[path] = "text"}

\* text_fields_with_keyword: collected from every index into one set.
TextFieldsWithKeyword(root) ==
    UNION {IF root[n].has_properties
           THEN CollectTextFieldsWithKeyword(root[n].properties, "")
           ELSE {} : n \in 1..Len(root)}

\* The merge step of schema resolution on a parsed mapping response, and the
\* text fields collected after it.
MergeMappings ==
    /\ mg_pc = "fetched"
    /\ mg_result' = MergeMappingsFromIndices(mg_root)
    /\ mg_text' = IF MergeMappingsFromIndices(mg_root).thrown
                  THEN mg_text
                  ELSE [text_fields |->
                            TextFields(MergeMappingsFromIndices(mg_root),
                                       AllPathTypes(mg_root, <<>>, 1)),
                        text_fields_with_keyword |-> TextFieldsWithKeyword(mg_root)]
    /\ mg_pc' = "done"
    /\ UNCHANGED mg_root

(***************************************************************************)
(* Inputs of the mapping merge                                             *)
(***************************************************************************)

\* Largest number of children of the object fields explored.
MaxStructFields == 2

ScalarDef(es_type) ==
    [type |-> es_type, has_properties |-> FALSE, properties |-> <<>>, keyword_subfield |-> FALSE]

\* A text field with "fields": {"keyword": {"type": "keyword"}}.
TextWithKeyword ==
    [type |-> "text", has_properties |-> FALSE, properties |-> <<>>, keyword_subfield |-> TRUE]

\* An object field: "properties" and no "type" key.
ObjectDef(properties) ==
    [type |-> "", has_properties |-> TRUE, properties |-> properties, keyword_subfield |-> FALSE]

\* A nested field with declared properties.
NestedDef(properties) ==
    [type |-> "nested", has_properties |-> TRUE, properties |-> properties,
     keyword_subfield |-> FALSE]

Property(name, def) == [name |-> name, def |-> def]

ScalarDefs == {ScalarDef("keyword"), ScalarDef("long"), ScalarDef("text")}

\* The definitions of the children of an object field.
InnerDefs ==
    (ScalarDefs \ {ScalarDef("text")})
    \cup {ObjectDef(<<Property("x", ScalarDef("keyword"))>>),
          ObjectDef(<<Property("y", ScalarDef("long"))>>)}

ChildNames == {"a", "b", "c"}

\* Sequences of n distinct child names.
NameSeqs(n) ==
    {ns \in [1..n -> ChildNames] : \A i, j \in 1..n : i # j => ns[i] # ns[j]}

\* Property lists over the given names, children drawn from InnerDefs.
PropertyLists(names) ==
    {[i \in 1..Len(names) |-> Property(names[i], ds[i])] : ds \in [1..Len(names) -> InnerDefs]}

ObjectDefs ==
    {ObjectDef(ps) : ps \in UNION {PropertyLists(ns) :
                                      ns \in UNION {NameSeqs(n) : n \in 1..MaxStructFields}}}

\* Objects with one child, scalars, and the two forms of "nested".
SmallDefs ==
    ScalarDefs
    \cup {ObjectDef(ps) : ps \in UNION {PropertyLists(ns) : ns \in NameSeqs(1)}}
    \cup {ScalarDef("nested"), NestedDef(<<Property("a", ScalarDef("keyword"))>>)}

FieldDefs == ObjectDefs \cup SmallDefs

IndexMapping(index_name, properties) ==
    [index_name |-> index_name, has_properties |-> TRUE, properties |-> properties]

\* An index whose entry in the response has no mappings.properties object.
IndexWithoutMapping(index_name) ==
    [index_name |-> index_name, has_properties |-> FALSE, properties |-> <<>>]

\* Two indices declaring field f with any pair of definitions.
TwoIndexRoots ==
    {<<IndexMapping("idx_a", <<Property("f", d1)>>),
       IndexMapping("idx_b", <<Property("f", d2)>>)>> : d1 \in FieldDefs, d2 \in FieldDefs}

\* Three indices declaring field f; the second may have no mapping.
ThreeIndexRoots ==
    {<<IndexMapping("idx_a", <<Property("f", d1)>>), i2,
       IndexMapping("idx_c", <<Property("f", d3)>>)>> :
        d1 \in SmallDefs, d3 \in SmallDefs,
        i2 \in {IndexMapping("idx_b", <<Property("f", d2)>>) : d2 \in SmallDefs}
               \cup {IndexWithoutMapping("idx_b")}}

\* Pairs of distinct field names, for the order of the columns.
FieldNamePairs ==
    {ns \in [1..2 -> {"f", "g", "h"}] : ns[1] # ns[2]}

\* Two indices with two scalar fields each.
TwoFieldRoots ==
    {<<IndexMapping("idx_a", <<Property(ns1[1], ScalarDef("keyword")), Property(ns1[2], d1)>>),
       IndexMapping("idx_b", <<Property(ns2[1], ScalarDef("keyword")), Property(ns2[2], d2)>>)>> :
        ns1 \in FieldNamePairs, ns2 \in FieldNamePairs, d1 \in ScalarDefs, d2 \in ScalarDefs}

\* The definitions of a string field, top-level or inside an object.
StringDefs ==
    {ScalarDef("text"), TextWithKeyword, ScalarDef("keyword")}
    \cup {ObjectDef(<<Property("a", d)>>) :
              d \in {ScalarDef("text"), TextWithKeyword, ScalarDef("keyword")}}

\* Two indices declaring the string field f, each in its own way.
TextRoots ==
    {<<IndexMapping("idx_a", <<Property("f", d1)>>),
       IndexMapping("idx_b", <<Property("f", d2)>>)>> : d1 \in StringDefs, d2 \in StringDefs}

\* Indices whose properties have a dot in their names.
DottedRoots ==
    {<<IndexMapping("idx_a", <<Property(n1, ScalarDef("keyword")), Property("f", d1)>>),
       IndexMapping("idx_b", <<Property(n2, d2)>>)>> :
        n1 \in {"a.b", "g"}, n2 \in {"a.b", "c.b", "b"},
        d1 \in {ScalarDef("keyword"), ScalarDef("long")},
        d2 \in {ScalarDef("keyword"), ScalarDef("long")}}

MappingRoots ==
    TwoIndexRoots \cup ThreeIndexRoots \cup TwoFieldRoots \cup TextRoots \cup DottedRoots

InitMergeVars ==
    /\ mg_pc = "fetched"
    /\ mg_root \in MappingRoots
    /\ mg_result = [thrown |-> FALSE, done |-> FALSE]
    /\ mg_text = [text_fields |-> {}, text_fields_with_keyword |-> {}]

InitMerge == InitMergeVars /\ IdleResolveVars /\ IdleCacheVars /\ IdleKeyVars /\ IdleRetryVars /\ IdleScanVars /\ IdleFilterVars

NextMerge == MergeMappings /\ UNCHANGED <<retryVars, scanVars, filterVars, resolveVars, cacheVars, keyVars>>

SpecMerge == InitMerge /\ [][NextMerge]_vars

(***************************************************************************)
(* Schema resolution: mapping, sampling, list wrapping                     *)
(* A document of the store is [has_source, arrays, unmapped]: arrays is    *)
(* the set of top-level paths at which the document holds an array,        *)
(* unmapped says that it has a field the mapping does not declare.         *)
(***************************************************************************)

\* The fields SampleDocuments never inspects for arrays.
SkipFields(field_paths, es_types) ==
    {field_paths[i] : i \in {j \in 1..Len(field_paths) :
                                j <= Len(es_types) /\ es_types[j] \in {"geo_point", "geo_shape"}}}

\* all_detected
AllDetected(st, field_paths, skip_fields) ==
    /\ Cardinality(st.array_fields) + Cardinality(skip_fields) >= Len(field_paths)
    /\ st.has_unmapped_fields

\* The response to the n-th page request of the sampling cursor, which has
\* served pos documents so far; the store issues a new _scroll_id with every
\* page (the n-th response carries token n).
SamplePageResponse(n, pos) ==
    LET k0   == Min(rs_sample_size, Len(rs_docs) - pos)
        k    == IF rs_page_cap = 0 THEN k0 ELSE Min(k0, rs_page_cap)
    IN [success |-> ~(rs_fault.kind = "fail" /\ rs_fault.n = n),
        parseable |-> ~(rs_fault.kind = "unparseable" /\ rs_fault.n = n),
        hits |-> [i \in 1..k |-> pos + i],
        scroll_id |-> IF rs_gives_token THEN n ELSE 0]

\* process_batch: the hits of one page from the i-th on.
RECURSIVE ProcessBatch(_, _, _, _, _)
ProcessBatch(st, hits_array, i, field_paths, skip_fields) ==
    IF i > Len(hits_array) THEN st
    ELSE IF st.docs_remaining <= 0 \/ AllDetected(st, field_paths, skip_fields) THEN st
    ELSE LET doc == rs_docs[hits_array[i]]
         IN IF ~doc.has_source
            THEN ProcessBatch(st, hits_array, i + 1, field_paths, skip_fields)
            ELSE ProcessBatch(
                    [st EXCEPT !.docs_remaining = @ - 1,
                               !.has_unmapped_fields = @ \/ doc.unmapped,
                               !.array_fields =
                                   @ \cup {field_paths[j] : j \in {l \in 1..Len(field_paths) :
                                              /\ field_paths[l] \notin skip_fields
                                              /\ field_paths[l] \in doc.arrays}},
                               !.sampled = @ \cup {hits_array[i]}],
                    hits_array, i + 1, field_paths, skip_fields)

\* Mutant: the token of the first page is kept for the whole sampling.
ExtractScrollId_MutFirst(current, scroll_id_val) ==
    IF current = 0 THEN scroll_id_val ELSE current

\* The scroll_id after a page was parsed: the _scroll_id of the page when it
\* has one, the previous value otherwise.
ExtractScrollId(current, scroll_id_val) ==
    IF scroll_id_val # 0 THEN scroll_id_val ELSE current

\* The while loop of SampleDocuments; st.response is the response in hand.
RECURSIVE SampleLoop(_, _, _)
SampleLoop(st, field_paths, skip_fields) ==
    IF ~(st.docs_remaining > 0 /\ ~AllDetected(st, field_paths, skip_fields)) THEN st
    ELSE IF ~st.response.parseable THEN st
    ELSE LET st1 == [st EXCEPT !.scroll_id = ExtractScrollId(@, st.response.scroll_id)]
         IN IF st.response.hits = <<>> THEN st1
            ELSE LET st2 == ProcessBatch(st1, st.response.hits, 1, field_paths, skip_fields)
                     pos == st.pos + Len(st.response.hits)
                 IN IF st2.docs_remaining > 0 /\ ~AllDetected(st2, field_paths, skip_fields)
                       /\ st2.scroll_id # 0
                    THEN LET resp == SamplePageResponse(st2.n + 1, pos)
                             st3  == [st2 EXCEPT !.n = @ + 1, !.pos = pos, !.response = resp,
                                         !.requests = Append(@, [kind |-> "scroll", size |-> 0,
                                                                 attempts |-> 0,
                                                                 status |-> IF resp.success THEN 200 ELSE 503,
                                                                 token |-> st2.scroll_id])]
                         IN IF ~resp.success THEN st3
                            ELSE SampleLoop(st3, field_paths, skip_fields)
                    ELSE st2

\* Mutant: a failed sampling search is raised as an error.
SampleSearchFailure_MutThrow(st) ==
    [array_fields |-> {}, has_unmapped_fields |-> FALSE, sampled |-> {},
     requests |-> st.requests, thrown |-> TRUE]

\* What SampleDocuments returns when the initial search failed.
SampleSearchFailure(st) ==
    [array_fields |-> {}, has_unmapped_fields |-> FALSE, sampled |-> {},
     requests |-> st.requests, thrown |-> FALSE]

\* SampleDocuments: the SampleResult, the documents inspected and the requests
\* sent; close_status is the status the store answers the cleanup with.
SampleDocuments(field_paths, es_types, sample_size, close_status) ==
    IF sample_size <= 0 \/ field_paths = <<>>
    THEN [array_fields |-> {}, has_unmapped_fields |-> FALSE, sampled |-> {},
          requests |-> <<>>, thrown |-> FALSE]
    ELSE LET skip_fields == SkipFields(field_paths, es_types)
             first == SamplePageResponse(1, 0)
             st0 == [array_fields |-> {}, has_unmapped_fields |-> FALSE, sampled |-> {},
                     docs_remaining |-> sample_size, scroll_id |-> 0, pos |-> 0, n |-> 1,
                     response |-> first,
                     requests |-> <<[kind |-> "search", size |-> sample_size, attempts |-> 0,
                                     status |-> IF first.success THEN 200 ELSE 503,
                                     token |-> 0]>>]
         IN IF ~first.success THEN SampleSearchFailure(st0)
            ELSE LET st1 == SampleLoop(st0, field_paths, skip_fields)
                     closes == IF st1.scroll_id # 0
                               THEN LET attempts == ClearScroll(close_status)
                                    IN <<[kind |-> "clear", size |-> 0,
                                          attempts |-> Len(attempts),
                                          status |-> Last(attempts).status_code,
                                          token |-> st1.scroll_id]>>
                               ELSE <<>>
                 IN [array_fields |-> st1.array_fields,
                     has_unmapped_fields |-> st1.has_unmapped_fields,
                     sampled |-> st1.sampled,
                     requests |-> st1.requests \o closes, thrown |-> FALSE]

\* The exception ResolveElasticsearchSchema raises when the mapping cannot be
\* fetched or parsed.
MappingFailure(message, requests) ==
    [thrown |-> TRUE, done |-> TRUE, message |-> message, requests |-> requests]

\* Wrap types in LIST for fields detected as arrays.
WrapArrayFields(all_column_types, field_paths, array_fields) ==
    [i \in 1..Len(field_paths) |->
        IF field_paths[i] \in array_fields /\ all_column_types[i].id # "LIST"
        THEN ListOf(all_column_types[i])
        ELSE all_column_types[i]]

\* The SampleResult a resolution works with: sampling is skipped when
\* sample_size is 0 or the mapping has no fields.
SampleOf(merged, sample_size, close_status) ==
    IF sample_size > 0 /\ merged.field_paths # <<>>
    THEN SampleDocuments(merged.field_paths, merged.es_types, sample_size, close_status)
    ELSE [array_fields |-> {}, has_unmapped_fields |-> FALSE,
          sampled |-> {}, requests |-> <<>>, thrown |-> FALSE]

\* The end of the cache-miss path: the columns of the merged mapping, those of
\* array_fields wrapped in lists.
ResolveSampled(merged, sample_result, get_mapping) ==
    IF sample_result.thrown
    THEN [result |-> MappingFailure("sampling failed",
                                    <<get_mapping>> \o sample_result.requests),
          sample |-> EmptySample]
    ELSE [result |->
             [thrown |-> FALSE, done |-> TRUE,
              all_column_names |-> merged.all_column_names,
              all_column_types |->
                  WrapArrayFields(merged.all_column_types, merged.field_paths,
                                  sample_result.array_fields),
              field_paths |-> merged.field_paths,
              es_types |-> merged.es_types,
              all_mapped_paths |-> merged.all_mapped_paths,
              requests |-> <<get_mapping>> \o sample_result.requests],
          sample |-> [array_fields |-> sample_result.array_fields,
                      has_unmapped_fields |-> sample_result.has_unmapped_fields,
                      sampled |-> sample_result.sampled]]

\* The cache-miss path after the mapping was parsed and merged.
ResolveMerged(merged, sample_size, close_status, get_mapping) ==
    IF merged.thrown
    THEN [result |-> [merged EXCEPT !.done = TRUE] @@ [requests |-> <<get_mapping>>],
          sample |-> EmptySample]
    ELSE ResolveSampled(merged, SampleOf(merged, sample_size, close_status), get_mapping)

\* The cache-miss path of ResolveElasticsearchSchema: the schema (or the
\* exception), the SampleResult it used and the requests it sent.
ResolveMiss(mapping, root, sample_size, close_status) ==
    IF mapping = "fail"
    THEN [result |-> MappingFailure("Failed to get Elasticsearch mapping",
                                    <<[kind |-> "mapping", size |-> 0, attempts |-> 0,
                                       status |-> 503, token |-> 0]>>),
          sample |-> EmptySample]
    ELSE IF mapping = "unparseable"
    THEN [result |-> MappingFailure("Failed to parse Elasticsearch mapping response",
                                    <<[kind |-> "mapping", size |-> 0, attempts |-> 0,
                                       status |-> 200, token |-> 0]>>),
          sample |-> EmptySample]
    ELSE ResolveMerged(MergeMappingsFromIndices(root), sample_size, close_status,
                       [kind |-> "mapping", size |-> 0, attempts |-> 0, status |-> 200, token |-> 0])

\* The separator of the parts of a cache key: the null byte, in caret notation.
NUL == "^@"

\* BuildBindCacheKey: the parts are appended in this order, each followed by
\* the separator except the last.
BuildBindCacheKey(config, index, base_query, size) ==
    config.host \o NUL \o ToString(config.port) \o NUL \o index \o NUL \o base_query \o NUL
        \o config.username \o NUL \o config.password \o NUL
        \o (IF config.use_ssl THEN "1" ELSE "0") \o NUL
        \o (IF config.verify_ssl THEN "1" ELSE "0") \o NUL
        \o ToString(size)

\* The configuration of the resolver threads.
CacheConfig ==
    [host |-> "localhost", port |-> 9200, username |-> "", password |-> "",
     use_ssl |-> FALSE, verify_ssl |-> TRUE, timeout |-> 30000, max_retries |-> 3]

\* cache_.find(key): the live node of the key (0 = cache_.end()).
Find_(key) ==
    IF \E n \in 1..Len(cache_) : cache_[n].live /\ cache_[n].key = key
    THEN CHOOSE n \in 1..Len(cache_) : cache_[n].live /\ cache_[n].key = key
    ELSE 0

\* ElasticsearchBindCache::Put as one critical section: cache_[key] finds the
\* node of the key or inserts one, and the entry is assigned to it.
Put(key, column_names, column_types) ==
    LET node == Find_(key)
    IN IF node # 0
       THEN [cache_ EXCEPT ![node].gen = @ + 1,
                           ![node].all_column_names = column_names,
                           ![node].all_column_types = column_types]
       ELSE Append(cache_, [key |-> key, live |-> TRUE, gen |-> 0,
                            all_column_names |-> column_names,
                            all_column_types |-> column_types])

\* ResolveElasticsearchSchema on a cache miss, one network round trip: the
\* next request of the call is sent and answered (the mapping request, the
\* sampling search, a scroll refresh or the clear scroll), and the call goes on
\* to the point where it sends the next one.
ResolveRoundTrip ==
    /\ rs_pc = "call"
    /\ Len(rs_requests) <
           Len(ResolveMiss(rs_mapping, rs_root, rs_sample_size, rs_close_status).result.requests)
    /\ rs_requests' =
           Append(rs_requests,
                  ResolveMiss(rs_mapping, rs_root, rs_sample_size,
                              rs_close_status).result.requests[Len(rs_requests) + 1])
    /\ UNCHANGED <<rs_pc, rs_result, rs_sample, rs_root, rs_mapping, rs_sample_size, rs_docs,
                   rs_page_cap, rs_gives_token, rs_fault, rs_close_status>>
    /\ UNCHANGED cacheVars

\* ResolveElasticsearchSchema on a cache miss, after its last round trip: the
\* exception is raised, or the columns are built, stored in the bind cache
\* under the key of the call and returned.
ResolveReturn ==
    /\ rs_pc = "call"
    /\ rs_requests =
           ResolveMiss(rs_mapping, rs_root, rs_sample_size, rs_close_status).result.requests
    /\ LET r == ResolveMiss(rs_mapping, rs_root, rs_sample_size, rs_close_status)
       IN /\ rs_result' = r.result
          /\ rs_sample' = r.sample
          /\ cache_' = IF r.result.thrown
                       THEN cache_
                       ELSE Put(BuildBindCacheKey(CacheConfig, "idx_a", "", rs_sample_size),
                                r.result.all_column_names, r.result.all_column_types)
    /\ rs_pc' = "done"
    /\ UNCHANGED <<rs_requests, rs_root, rs_mapping, rs_sample_size, rs_docs, rs_page_cap,
                   rs_gives_token, rs_fault, rs_close_status>>
    /\ UNCHANGED <<mutex_, th, store_version, setting_sample_size, created, created_count,
                   clears>>

(***************************************************************************)
(* Inputs of schema resolution                                             *)
(***************************************************************************)

\* Largest sample_size and largest number of matching documents explored.
MaxSampleSize == 3

MaxSampleDocs == 2

\* The first field of the resolved index takes each of these definitions; the
\* second field g is a keyword.
ResolveFieldDefs ==
    {ScalarDef("keyword"), ScalarDef("geo_point"), ScalarDef("nested"),
     ObjectDef(<<Property("a", ScalarDef("long"))>>)}

ResolveRoots ==
    {<<IndexMapping("idx_a", <<Property("f", d), Property("g", ScalarDef("keyword"))>>)>> :
        d \in ResolveFieldDefs}
    \cup {<<IndexMapping("idx_a", <<Property("f", ScalarDef("geo_point"))>>)>>,
          <<IndexWithoutMapping("idx_a")>>,
          <<IndexMapping("idx_a", <<Property("f", ScalarDef("keyword"))>>),
            IndexMapping("idx_b", <<Property("f", ScalarDef("long"))>>)>>}

Document(has_source, arrays, unmapped) ==
    [has_source |-> has_source, arrays |-> arrays, unmapped |-> unmapped]

DocumentKinds ==
    {Document(FALSE, {}, FALSE), Document(TRUE, {}, FALSE), Document(TRUE, {"f"}, FALSE),
     Document(TRUE, {"g"}, FALSE), Document(TRUE, {}, TRUE),
     Document(TRUE, {"f", "g"}, TRUE)}

DocumentLists == UNION {[1..n -> DocumentKinds] : n \in 0..MaxSampleDocs}

SamplingFaults ==
    {[kind |-> "none", n |-> 0]}
    \cup {[kind |-> k, n |-> n] : k \in {"fail", "unparseable"}, n \in 1..2}

InitResolveVars ==
    /\ rs_pc = "call"
    /\ rs_result = [thrown |-> FALSE, done |-> FALSE]
    /\ rs_sample = EmptySample
    /\ rs_requests = <<>>
    /\ rs_root \in ResolveRoots
    /\ \/ /\ rs_mapping = "ok"
          /\ rs_close_status = 200
          /\ rs_sample_size \in 0..MaxSampleSize
          /\ rs_docs \in DocumentLists
          /\ rs_page_cap \in 0..1
          /\ rs_gives_token \in BOOLEAN
          /\ rs_fault \in SamplingFaults
       \/ /\ rs_mapping = "ok"
          /\ rs_close_status \in CloseStatuses \ {200}
          /\ rs_sample_size \in 0..MaxSampleSize
          /\ rs_docs \in DocumentLists
          /\ rs_page_cap = 0
          /\ rs_gives_token = TRUE
          /\ rs_fault = [kind |-> "none", n |-> 0]
       \/ /\ rs_mapping \in {"fail", "unparseable"}
          /\ rs_close_status \in CloseStatuses
          /\ rs_sample_size = MaxSampleSize
          /\ rs_docs = <<>>
          /\ rs_page_cap = 0
          /\ rs_gives_token = TRUE
          /\ rs_fault = [kind |-> "none", n |-> 0]

InitResolve == InitResolveVars /\ IdleMergeVars /\ IdleCacheVars /\ IdleKeyVars /\ IdleRetryVars /\ IdleScanVars /\ IdleFilterVars

NextResolve ==
    \/ ResolveRoundTrip /\ UNCHANGED <<retryVars, scanVars, filterVars, mergeVars, keyVars>>
    \/ ResolveReturn /\ UNCHANGED <<retryVars, scanVars, filterVars, mergeVars, keyVars>>

SpecResolve == InitResolve /\ [][NextResolve]_vars

\* Scans and schema resolutions side by side: every run is one scan or one
\* resolution, so that the callers of ClearScroll can be checked together.
InitClose == InitScan \/ InitResolve

NextClose == NextScan \/ NextResolve

SpecClose == InitClose /\ [][NextClose]_vars

(***************************************************************************)
(* Bind cache: ElasticsearchBindCache shared by resolver threads            *)
(* A schema is identified by the version of the mapping and the version of *)
(* the sampled documents it was built from; a cache entry holds it in two  *)
(* of its fields, all_column_names and                                     *)
(* all_column_types, which are written and copied one after the other.     *)
(***************************************************************************)

\* Resolver threads (connections binding at the same time) and the calls each
\* makes.
MaxThreads == 2

MaxCalls == 2

\* Clears of the cache and changes of the store's mapping explored.
MaxClears == 1

MaxStoreVersion == 2

\* Scroll refreshes of one sampling explored.
MaxScrolls == 1

Threads == 1..MaxThreads

\* Values of the elasticsearch_sample_size setting.
SampleSizes == {100, 200}

CacheKeys == {BuildBindCacheKey(CacheConfig, "idx_a", "", size) : size \in SampleSizes}

\* ---- two calls of BuildBindCacheKey ----

\* The arguments that are documented to make the key, and the connection and
\* transport settings of the configuration.
KeyFields == {"host", "port", "index", "base_query", "sample_size"}
ConnectionFields == {"username", "password", "use_ssl", "verify_ssl", "timeout", "max_retries"}

\* The first call: its configuration and arguments.
KeyCalls ==
    {[config |-> [CacheConfig EXCEPT !.host = h, !.port = p],
      index |-> i, base_query |-> q, sample_size |-> n] :
        h \in {"localhost", "es2"}, p \in {9200, 9201}, i \in {"idx_a", "idx_b"},
        q \in {"", "{\"match_all\":{}}"}, n \in SampleSizes}

\* The call c with the arguments named in `changed` given another value.
VaryCall(c, changed) ==
    [config |->
        [host        |-> IF "host" \in changed THEN c.config.host \o "x" ELSE c.config.host,
         port        |-> IF "port" \in changed THEN c.config.port + 1 ELSE c.config.port,
         username    |-> IF "username" \in changed THEN "elastic" ELSE c.config.username,
         password    |-> IF "password" \in changed THEN "secret" ELSE c.config.password,
         use_ssl     |-> IF "use_ssl" \in changed THEN ~c.config.use_ssl ELSE c.config.use_ssl,
         verify_ssl  |-> IF "verify_ssl" \in changed THEN ~c.config.verify_ssl ELSE c.config.verify_ssl,
         timeout     |-> IF "timeout" \in changed THEN c.config.timeout + 1 ELSE c.config.timeout,
         max_retries |-> IF "max_retries" \in changed THEN c.config.max_retries + 1
                         ELSE c.config.max_retries],
     index |-> IF "index" \in changed THEN c.index \o "x" ELSE c.index,
     base_query |-> IF "base_query" \in changed THEN c.base_query \o " " ELSE c.base_query,
     sample_size |-> IF "sample_size" \in changed THEN c.sample_size + 1 ELSE c.sample_size]

\* The second call differs from the first in any set of connection and
\* transport settings, or in one of the key fields.
InitKeyVars ==
    /\ \E c \in KeyCalls, changed \in (SUBSET ConnectionFields) \cup {{f} : f \in KeyFields} :
          key_calls = <<c, VaryCall(c, changed)>>
    /\ key_built = <<>>

\* Both keys are built.
BuildKeys ==
    /\ key_calls # <<>>
    /\ key_built = <<>>
    /\ key_built' = [i \in 1..2 |->
                       BuildBindCacheKey(key_calls[i].config, key_calls[i].index,
                                         key_calls[i].base_query, key_calls[i].sample_size)]
    /\ UNCHANGED key_calls

InitKey ==
    InitKeyVars /\ IdleMergeVars /\ IdleResolveVars /\ IdleCacheVars /\ IdleRetryVars
        /\ IdleScanVars /\ IdleFilterVars

NextKey ==
    BuildKeys /\ UNCHANGED <<retryVars, scanVars, filterVars, mergeVars, resolveVars, cacheVars>>

SpecKey == InitKey /\ [][NextKey]_vars

\* What a read of freed or concurrently written memory may yield besides the
\* bytes that are there.
Garbage == 0 - 1

\* ElasticsearchBindCache::Get as called first by ResolveElasticsearchSchema:
\* under the mutex it finds the node and returns a pointer to the entry in it;
\* the mutex is released when Get returns.
Get(t) ==
    /\ th[t].pc = "idle"
    /\ th[t].calls < MaxCalls
    /\ mutex_ = 0
    /\ LET cache_key == BuildBindCacheKey(CacheConfig, "idx_a", "", setting_sample_size)
           cached == Find_(cache_key)
       IN th' = [th EXCEPT ![t] =
                    [pc |-> IF cached # 0 THEN "copy_names" ELSE "fetch",
                     key |-> cache_key, cached |-> cached,
                     gen |-> IF cached # 0 THEN cache_[cached].gen ELSE 0,
                     schema |-> 0, all_column_names |-> 0, all_column_types |-> 0,
                     hit |-> cached # 0, requests |-> 0, thrown |-> FALSE,
                     dangling |-> FALSE, racy |-> FALSE,
                     expected |-> created[cache_key], cleared |-> FALSE,
                     calls |-> th[t].calls + 1, sampling_failed |-> FALSE,
                     scroll_id |-> FALSE, scrolls |-> 0, mapping_version |-> 0,
                     sample_version |-> 0, pages |-> 0]]
    /\ UNCHANGED <<cache_, mutex_, store_version, setting_sample_size, created, created_count,
                   clears>>

\* The pointer of thread t refers to a node that was erased.
Dangling(t) == ~cache_[th[t].cached].live

\* The node was assigned to after thread t obtained its pointer.
Overwritten(t) == cache_[th[t].cached].gen # th[t].gen

\* What a copy through the pointer may read: the field when the node is intact;
\* otherwise the read is undefined and yields the bytes found or anything else.
ReadThroughPointer(t, field) ==
    IF Dangling(t) \/ Overwritten(t) THEN {field, Garbage} ELSE {field}

\* result.all_column_names = cached->all_column_names; (outside the mutex; an
\* undefined read may also end the process, or make the copy throw
\* (std::bad_alloc, std::length_error): the exception leaves
\* ResolveElasticsearchSchema, which returns no schema)
CopyNames(t) ==
    /\ th[t].pc = "copy_names"
    /\ \/ \E v \in ReadThroughPointer(t, cache_[th[t].cached].all_column_names) :
             th' = [th EXCEPT ![t].all_column_names = v,
                              ![t].dangling = @ \/ Dangling(t),
                              ![t].racy = @ \/ Overwritten(t),
                              ![t].pc = "copy_types"]
       \/ /\ Dangling(t) \/ Overwritten(t)
          /\ th' = [th EXCEPT ![t].dangling = @ \/ Dangling(t),
                              ![t].racy = @ \/ Overwritten(t),
                              ![t].pc = "crashed"]
       \/ /\ Dangling(t) \/ Overwritten(t)
          /\ th' = [th EXCEPT ![t].dangling = @ \/ Dangling(t),
                              ![t].racy = @ \/ Overwritten(t),
                              ![t].thrown = TRUE,
                              ![t].pc = "idle"]
    /\ UNCHANGED <<cache_, mutex_, store_version, setting_sample_size, created, created_count,
                   clears>>

\* result.all_column_types = cached->all_column_types; ... return result;
\* (a copy that throws destroys the result with the names already copied)
CopyTypes(t) ==
    /\ th[t].pc = "copy_types"
    /\ \/ \E v \in ReadThroughPointer(t, cache_[th[t].cached].all_column_types) :
             th' = [th EXCEPT ![t].all_column_types = v,
                              ![t].dangling = @ \/ Dangling(t),
                              ![t].racy = @ \/ Overwritten(t),
                              ![t].pc = "idle"]
       \/ /\ Dangling(t) \/ Overwritten(t)
          /\ th' = [th EXCEPT ![t].dangling = @ \/ Dangling(t),
                              ![t].racy = @ \/ Overwritten(t),
                              ![t].pc = "crashed"]
       \/ /\ Dangling(t) \/ Overwritten(t)
          /\ th' = [th EXCEPT ![t].dangling = @ \/ Dangling(t),
                              ![t].racy = @ \/ Overwritten(t),
                              ![t].all_column_names = 0,
                              ![t].thrown = TRUE,
                              ![t].pc = "idle"]
    /\ UNCHANGED <<cache_, mutex_, store_version, setting_sample_size, created, created_count,
                   clears>>

\* The schema built from version `mapping_version` of the mapping and from
\* `pages` pages of documents of the snapshot the sampling search took at
\* version `sample_version` of the index (0 pages: no document was sampled, the
\* columns are those of the bare mapping).  Every page processed can add list
\* columns, so different triples are different schemas; each has an identifier
\* of its own.
SchemaId(mapping_version, sample_version, pages) ==
    IF pages = 0
    THEN mapping_version
    ELSE mapping_version
           + (MaxStoreVersion + 1) * ((sample_version - 1) * (MaxScrolls + 1) + pages)

\* The cache-miss path, first round trip: client.GetMapping.  A failed mapping
\* request throws and nothing is cached; otherwise the columns are built from
\* the mapping the store holds at that moment.  (The index declares fields and
\* sample_size is positive, so the sampling is entered.)
FetchMapping(t) ==
    /\ th[t].pc = "fetch"
    /\ \E ok \in BOOLEAN :
          th' = [th EXCEPT ![t] =
                    IF ok
                    THEN [@ EXCEPT !.mapping_version = store_version,
                                   !.schema = SchemaId(store_version, 0, 0),
                                   !.requests = 1,
                                   !.all_column_names = SchemaId(store_version, 0, 0),
                                   !.all_column_types = SchemaId(store_version, 0, 0),
                                   !.pc = "sample_search"]
                    ELSE [@ EXCEPT !.requests = 1, !.thrown = TRUE, !.pc = "idle"]]
    /\ UNCHANGED <<cache_, mutex_, store_version, setting_sample_size, created, created_count,
                   clears>>

\* What a sampling request may come back with: a failed request, a body that
\* does not parse, a page without hits, a page whose documents complete the
\* sample, and a page after which more documents are wanted.
SamplePages == {"failed", "unparseable", "empty", "docs_enough", "docs_more"}

\* Where SampleDocuments goes after a page: to the next scroll refresh when
\* more documents are wanted and a token is held, else out of the loop, to the
\* ClearScroll when a token is held and straight to the Put otherwise.
AfterSamplePage(page, has_token) ==
    IF page = "docs_more" /\ has_token THEN "sample_next"
    ELSE IF has_token THEN "sample_clear"
    ELSE "put_names"

\* The page carries documents that process_batch goes through.
HasDocuments(page) == page \in {"docs_enough", "docs_more"}

\* SampleDocuments, second round trip of the miss path: client.ScrollSearch.
\* A failed search returns the empty sample without raising; a parsed page
\* yields its token, and its documents are those the index holds at that
\* moment, which may be later than the mapping fetched before.
\* (sampling_failed is kept for the properties: it records that a sampling
\* request of the call failed; the code has no such flag.)
SampleSearch(t) ==
    /\ th[t].pc = "sample_search"
    /\ \E page \in SamplePages, token \in BOOLEAN :
          LET has_token == token /\ page \notin {"failed", "unparseable"}
              sample_version == IF HasDocuments(page) THEN store_version ELSE 0
              pages == IF HasDocuments(page) THEN 1 ELSE 0
          IN th' = [th EXCEPT ![t].requests = @ + 1,
                              ![t].sampling_failed = (page = "failed"),
                              ![t].scroll_id = has_token,
                              ![t].sample_version = sample_version,
                              ![t].pages = pages,
                              ![t].schema =
                                  SchemaId(th[t].mapping_version, sample_version, pages),
                              ![t].all_column_names =
                                  SchemaId(th[t].mapping_version, sample_version, pages),
                              ![t].all_column_types =
                                  SchemaId(th[t].mapping_version, sample_version, pages),
                              ![t].pc = AfterSamplePage(page, has_token)]
    /\ UNCHANGED <<cache_, mutex_, store_version, setting_sample_size, created, created_count,
                   clears>>

\* SampleDocuments, a further round trip: client.ScrollNext.  The page belongs
\* to the snapshot of the search; its documents go through process_batch like
\* those of the first page and can add list columns.  A failed refresh leaves
\* the loop with the sample collected so far.
SampleNext(t) ==
    /\ th[t].pc = "sample_next"
    /\ \E page \in SamplePages :
          /\ page = "docs_more" => th[t].scrolls + 1 < MaxScrolls
          /\ LET pages == IF HasDocuments(page) THEN th[t].pages + 1 ELSE th[t].pages
             IN th' = [th EXCEPT ![t].requests = @ + 1,
                                 ![t].scrolls = @ + 1,
                                 ![t].sampling_failed = (page = "failed"),
                                 ![t].pages = pages,
                                 ![t].schema =
                                     SchemaId(th[t].mapping_version, th[t].sample_version, pages),
                                 ![t].all_column_names =
                                     SchemaId(th[t].mapping_version, th[t].sample_version, pages),
                                 ![t].all_column_types =
                                     SchemaId(th[t].mapping_version, th[t].sample_version, pages),
                                 ![t].pc = AfterSamplePage(page, th[t].scroll_id)]
    /\ UNCHANGED <<cache_, mutex_, store_version, setting_sample_size, created, created_count,
                   clears>>

\* SampleDocuments, last round trip: client.ClearScroll when a token is held;
\* its response is not looked at.
SampleClear(t) ==
    /\ th[t].pc = "sample_clear"
    /\ th' = [th EXCEPT ![t].requests = @ + 1, ![t].pc = "put_names"]
    /\ UNCHANGED <<cache_, mutex_, store_version, setting_sample_size, created, created_count,
                   clears>>

\* ElasticsearchBindCache::Put, first half: takes the mutex; cache_[key] finds
\* the node of the key or inserts an empty one, and the assignment starts
\* writing the entry in place.
PutNames(t) ==
    /\ th[t].pc = "put_names"
    /\ mutex_ = 0
    /\ mutex_' = t
    /\ LET node == Find_(th[t].key)
       IN IF node # 0
          THEN /\ cache_' = [cache_ EXCEPT ![node].gen = @ + 1,
                                           ![node].all_column_names = th[t].schema]
               /\ th' = [th EXCEPT ![t].pc = "put_types", ![t].cached = node]
          ELSE /\ cache_' = Append(cache_, [key |-> th[t].key, live |-> TRUE, gen |-> 0,
                                            all_column_names |-> th[t].schema,
                                            all_column_types |-> 0])
               /\ th' = [th EXCEPT ![t].pc = "put_types", ![t].cached = Len(cache_) + 1]
    /\ UNCHANGED <<store_version, setting_sample_size, created, created_count, clears>>

\* ElasticsearchBindCache::Put, second half: the rest of the entry is written,
\* the mutex released, and ResolveElasticsearchSchema returns its result.
PutTypes(t) ==
    /\ th[t].pc = "put_types"
    /\ mutex_ = t
    /\ cache_' = [cache_ EXCEPT ![th[t].cached].all_column_types = th[t].schema]
    /\ mutex_' = 0
    /\ created' = [created EXCEPT ![th[t].key] = IF @ = 0 THEN th[t].schema ELSE @]
    /\ created_count' = [created_count EXCEPT ![th[t].key] = @ + 1]
    /\ th' = [th EXCEPT ![t].pc = "idle"]
    /\ UNCHANGED <<store_version, setting_sample_size, clears>>

\* ElasticsearchBindCache::Clear: under the mutex, every node is erased.
Clear ==
    /\ mutex_ = 0
    /\ clears < MaxClears
    /\ clears' = clears + 1
    /\ cache_' = [n \in 1..Len(cache_) |-> [cache_[n] EXCEPT !.live = FALSE]]
    /\ created' = [k \in CacheKeys |-> 0]
    /\ created_count' = [k \in CacheKeys |-> 0]
    /\ th' = [t \in Threads |-> IF th[t].pc \in {"idle", "crashed"} THEN th[t]
                                ELSE [th[t] EXCEPT !.cleared = TRUE]]
    /\ UNCHANGED <<mutex_, store_version>>

\* SELECT elasticsearch_clear_cache()
ElasticsearchClearCacheFunction ==
    /\ Clear
    /\ UNCHANGED setting_sample_size

\* SET elasticsearch_sample_size = ...: the setting's callback clears the cache.
ClearCacheOnSetting ==
    /\ \E size \in SampleSizes \ {setting_sample_size} : setting_sample_size' = size
    /\ Clear

\* The mapping of the index changes in the store.
MappingChanges ==
    /\ store_version < MaxStoreVersion
    /\ store_version' = store_version + 1
    /\ UNCHANGED <<cache_, mutex_, th, setting_sample_size, created, created_count, clears>>

InitCacheVars ==
    /\ cache_ = <<>>
    /\ mutex_ = 0
    /\ th = [t \in Threads |-> IdleThread]
    /\ store_version = 1
    /\ setting_sample_size = 100
    /\ created = [k \in CacheKeys |-> 0]
    /\ created_count = [k \in CacheKeys |-> 0]
    /\ clears = 0

InitCache ==
    InitCacheVars /\ IdleMergeVars /\ IdleResolveVars /\ IdleKeyVars /\ IdleRetryVars /\ IdleScanVars
    /\ IdleFilterVars

NextCache ==
    /\ \/ \E t \in Threads : Get(t)
       \/ \E t \in Threads : CopyNames(t)
       \/ \E t \in Threads : CopyTypes(t)
       \/ \E t \in Threads : FetchMapping(t)
       \/ \E t \in Threads : SampleSearch(t)
       \/ \E t \in Threads : SampleNext(t)
       \/ \E t \in Threads : SampleClear(t)
       \/ \E t \in Threads : PutNames(t)
       \/ \E t \in Threads : PutTypes(t)
       \/ ElasticsearchClearCacheFunction
       \/ ClearCacheOnSetting
       \/ MappingChanges
    /\ UNCHANGED <<retryVars, scanVars, filterVars, mergeVars, resolveVars, keyVars>>

SpecCache == InitCache /\ [][NextCache]_vars

(***************************************************************************)
(* Properties of the mapping merge                                         *)
(***************************************************************************)

MergeDone == mg_pc = "done"

\* The indices of the response that declare top-level field path.
Declaring(path) ==
    {n \in 1..Len(mg_root) :
        /\ mg_root[n].has_properties
        /\ \E i \in 1..Len(mg_root[n].properties) : mg_root[n].properties[i].name = path}

\* The type index n declares for path.
DeclaredType(n, path) ==
    LET ps == mg_root[n].properties
        i  == CHOOSE i \in 1..Len(ps) : ps[i].name = path
    IN BuildDuckDBTypeFromMapping(ps[i].def)

MappedFields == {"f", "g", "h"}

\* Two indices declare path with incompatible types.
Conflict(path, n, m) ==
    /\ n \in Declaring(path)
    /\ m \in Declaring(path)
    /\ n < m
    /\ ~AreTypesCompatible(DeclaredType(n, path), DeclaredType(m, path))

IndexNumber(index_name) ==
    CHOOSE n \in 1..Len(mg_root) : mg_root[n].index_name = index_name

\* C16: when two matched indices declare the same path with incompatible
\* types the merge fails, and the error names the path, two indices whose
\* declarations of it conflict, and the types these two indices declare.
C16_Original ==
    MergeDone =>
        /\ (\E path \in MappedFields : \E n, m \in 1..Len(mg_root) : Conflict(path, n, m))
              => mg_result.thrown
        /\ mg_result.thrown =>
              LET n == IndexNumber(mg_result.first_index)
                  m == IndexNumber(mg_result.index_name)
              IN /\ Conflict(mg_result.field_path, n, m)
                 /\ mg_result.first_type = DeclaredType(n, mg_result.field_path)
                 /\ mg_result.type = DeclaredType(m, mg_result.field_path)

\* C16, the part that holds of the code: a conflict between declarations always
\* fails the merge; the error names the path, the first index that declared it
\* with the type merged so far, and the index whose declaration does not fit
\* with its declared type.  With two declaring indices these are the
\* conflicting pair.
C16_ConflictDetected ==
    MergeDone =>
        /\ (\E path \in MappedFields : \E n, m \in 1..Len(mg_root) : Conflict(path, n, m))
              <=> mg_result.thrown
        /\ mg_result.thrown =>
              LET n == IndexNumber(mg_result.first_index)
                  m == IndexNumber(mg_result.index_name)
                  path == mg_result.field_path
              IN /\ n \in Declaring(path) /\ m \in Declaring(path) /\ n < m
                 /\ \A k \in Declaring(path) : n <= k
                 /\ mg_result.type = DeclaredType(m, path)
                 /\ ~AreTypesCompatible(mg_result.first_type, mg_result.type)
                 /\ Cardinality({k \in Declaring(path) : k <= m}) = 2
                       => /\ Conflict(path, n, m)
                          /\ mg_result.first_type = DeclaredType(n, path)

\* result is the union of structs type1 and type2: the children of type1 in
\* their order, then the children only type2 has in their order; a child both
\* have as a struct is the union of the two, any other child keeps the type of
\* its first occurrence.
RECURSIVE IsStructUnion(_, _, _)
IsStructUnion(result, type1, type2) ==
    LET names1 == [i \in 1..Len(type1.children) |-> type1.children[i].name]
        names2 == [i \in 1..Len(type2.children) |-> type2.children[i].name]
        InFirst(name) == \E i \in 1..Len(names1) : names1[i] = name
        NotInFirst(name) == ~InFirst(name)
    IN /\ result.id = "STRUCT"
       /\ [i \in 1..Len(result.children) |-> result.children[i].name]
             = names1 \o SelectSeq(names2, NotInFirst)
       /\ \A i \in 1..Len(result.children) :
             LET name == result.children[i].name
                 j1 == ChildIndex(type1.children, name)
                 j2 == ChildIndex(type2.children, name)
                 t  == result.children[i].type
             IN IF j1 # 0 /\ j2 # 0 /\ type1.children[j1].type.id = "STRUCT"
                                    /\ type2.children[j2].type.id = "STRUCT"
                THEN IsStructUnion(t, type1.children[j1].type, type2.children[j2].type)
                ELSE IF j1 # 0 THEN t = type1.children[j1].type
                ELSE t = type2.children[j2].type

\* Two indices declared f, both as a struct, and the merge succeeded.
TwoStructsMerged ==
    /\ MergeDone
    /\ ~mg_result.thrown
    /\ Len(mg_root) = 2
    /\ Declaring("f") = {1, 2}
    /\ DeclaredType(1, "f").id = "STRUCT"
    /\ DeclaredType(2, "f").id = "STRUCT"

\* C17: merging struct{a,b} with struct{b,c} yields struct{a,b,c}: the merged
\* struct is the union of the children in first-seen order, struct children
\* that occur on both sides merged recursively.
C17_StructUnion ==
    TwoStructsMerged =>
        /\ mg_result.field_paths = <<"f">>
        /\ IsStructUnion(mg_result.all_column_types[1], DeclaredType(1, "f"), DeclaredType(2, "f"))

\* C17 witness: struct{a,b} and struct{b,c} with b an object on both sides have
\* been merged into struct{a,b,c} with b holding the children of both.
C17_Witness ==
    /\ TwoStructsMerged
    /\ Len(DeclaredType(1, "f").children) = 2
    /\ Len(DeclaredType(2, "f").children) = 2
    /\ [i \in 1..2 |-> DeclaredType(1, "f").children[i].name] = <<"a", "b">>
    /\ [i \in 1..2 |-> DeclaredType(2, "f").children[i].name] = <<"b", "c">>
    /\ Len(mg_result.all_column_types[1].children) = 3
    /\ [i \in 1..3 |-> mg_result.all_column_types[1].children[i].name] = <<"a", "b", "c">>
    /\ mg_result.all_column_types[1].children[2].type =
          StructOf(<<[name |-> "x", type |-> VARCHAR], [name |-> "y", type |-> Prim("BIGINT")]>>)

(***************************************************************************)
(* Properties of the filter translator                                     *)
(***************************************************************************)

\* The call has returned a query (no exception).
FilterDone == ft_pc = "done" /\ ~ft_result.thrown

\* The call was made with exactly one pushed filter.
SingleFilter == ft_pc = "done" /\ Cardinality(ft_filters) = 1

TheEntry == CHOOSE e \in ft_filters : TRUE

\* The column name the translator is given for filter-set entry e.
EntryColumn(e) == FilterColumnName(ft_column_ids[e.col_idx + 1])

\* C2: every filter of the pushed filter set is either translated into a clause
\* of the query sent to the store or makes the call fail; none is left out of a
\* query that is sent.
C2_Original ==
    FilterDone =>
        \A e \in ft_filters :
            \E i \in 1..Len(ft_result.must) : ft_result.must[i].col_idx = e.col_idx

\* C3: an OR filter with an untranslatable child is reported untranslatable as
\* a whole (no query fragment is built from the other children).
C3_Original ==
    (SingleFilter /\ FilterDone /\ TheEntry.filter.filter_type = "CONJUNCTION_OR"
        /\ \E i \in 1..Len(TheEntry.filter.child_filters) :
              IsNullptr(TranslateFilter(TheEntry.filter.child_filters[i], EntryColumn(TheEntry))))
    => IsNullptr(ft_result.es_query)

\* The filters C4 is about: comparisons with one of the six operators, IN, and
\* LIKE / ILIKE with a constant pattern.
IsUnsafeOnText(f) ==
    \/ f.filter_type = "CONSTANT_COMPARISON" /\ f.comparison_type \in SupportedComparisons
    \/ f.filter_type = "IN_FILTER"
    \/ f.filter_type = "EXPRESSION_FILTER" /\ f.expr.type = "BOUND_FUNCTION"
         /\ f.expr.name \in {"~~", "~~*", "like_escape", "ilike_escape"}
         /\ f.expr.children[2].type = "VALUE_CONSTANT"

IsNullCheck(f) == f.filter_type \in {"IS_NULL", "IS_NOT_NULL"}

\* The field a translated leaf clause queries.
TargetField(clause) ==
    IF clause.q = "bool_must_not" THEN clause.clause.field ELSE clause.field

\* A filter on a (possibly nested) field: the leaf and the field path it applies to.
LeafOf(f) == IF f.filter_type = "STRUCT_EXTRACT" THEN f.child_filter ELSE f

PathOf(f, column_name) ==
    IF f.filter_type = "STRUCT_EXTRACT" THEN column_name \o "." \o f.child_name ELSE column_name

\* C4: on a text field without .keyword sub-field, =, !=, <, <=, >, >=, IN and
\* LIKE/ILIKE raise the unsafe-pushdown error naming the field while IS NULL and
\* IS NOT NULL translate (on the field itself); on a text field with a .keyword
\* sub-field the same predicates translate and the query targets
\* '<field>.keyword'.
C4_TextFieldPushdown ==
    SingleFilter =>
        LET leaf == LeafOf(TheEntry.filter)
            path == PathOf(TheEntry.filter, EntryColumn(TheEntry))
        IN /\ (path \in {"body", "meta.note"} /\ IsUnsafeOnText(leaf)) =>
                  (ft_result.thrown /\ ft_result.field = path)
           /\ (path \in {"body", "meta.note"} /\ IsNullCheck(leaf)) =>
                  (~ft_result.thrown /\ Len(ft_result.must) = 1
                      /\ TargetField(ft_result.es_query) = path)
           /\ (path = "title" /\ IsUnsafeOnText(leaf)) =>
                  (~ft_result.thrown /\ Len(ft_result.must) = 1
                      /\ TargetField(ft_result.es_query) = "title.keyword")

\* C4 witness: title = 'x' on the text field with a .keyword sub-field has been
\* translated to a term query on title.keyword.
C4_Witness ==
    /\ SingleFilter
    /\ EntryColumn(TheEntry) = "title"
    /\ TheEntry.filter = ConstantFilter("COMPARE_EQUAL", VarcharValue(<<"x">>))
    /\ ft_result.es_query = TermQuery("title.keyword", [json |-> "string", v |-> <<"x">>])

\* A LIKE pattern read with backslash as the escape character: one token per
\* pattern element, "any" for %, "one" for _, "lit" for a literal character.
RECURSIVE LikeTokens(_, _, _, _)
LikeTokens(pattern, i, escaped, acc) ==
    IF i > Len(pattern) THEN acc
    ELSE LET c == pattern[i]
         IN IF escaped THEN LikeTokens(pattern, i + 1, FALSE, Append(acc, [kind |-> "lit", c |-> c]))
            ELSE IF c = "\\" THEN LikeTokens(pattern, i + 1, TRUE, acc)
            ELSE IF c = "%" THEN LikeTokens(pattern, i + 1, FALSE, Append(acc, [kind |-> "any", c |-> c]))
            ELSE IF c = "_" THEN LikeTokens(pattern, i + 1, FALSE, Append(acc, [kind |-> "one", c |-> c]))
            ELSE LikeTokens(pattern, i + 1, FALSE, Append(acc, [kind |-> "lit", c |-> c]))

\* The tier the documentation assigns to a pattern: exact match without
\* wildcard, prefix for a single trailing %, wildcard otherwise.
ExpectedTier(pattern) ==
    LET toks == LikeTokens(pattern, 1, FALSE, <<>>)
        wild == {i \in 1..Len(toks) : toks[i].kind # "lit"}
    IN IF wild = {} THEN "term"
       ELSE IF wild = {Len(toks)} /\ toks[Len(toks)].kind = "any" THEN "prefix"
       ELSE "wildcard"

\* The call translated a case-sensitive LIKE on the keyword field `status`.
LikeOnKeywordField ==
    /\ SingleFilter
    /\ EntryColumn(TheEntry) = "status"
    /\ TheEntry.filter.filter_type = "EXPRESSION_FILTER"
    /\ TheEntry.filter.expr.type = "BOUND_FUNCTION"
    /\ TheEntry.filter.expr.name = "~~"
    /\ TheEntry.filter.expr.children[2].type = "VALUE_CONSTANT"

ThePattern == TheEntry.filter.expr.children[2].value

\* C5: on a non-text field 'abc%' becomes a prefix query for 'abc', 'a%b_c' a
\* wildcard query for 'a*b?c' and 'a\%b' a term query for 'a%b'; the tier is
\* chosen from the wildcards that are not escaped by a backslash.
C5_Original ==
    LikeOnKeywordField =>
        /\ ~ft_result.thrown
        /\ ft_result.es_query.q = ExpectedTier(ThePattern)
        /\ ThePattern = <<"a", "b", "c", "%">> =>
              ft_result.es_query = PatternQuery("prefix", "status", <<"a", "b", "c">>, FALSE)
        /\ ThePattern = <<"a", "%", "b", "_", "c">> =>
              ft_result.es_query = PatternQuery("wildcard", "status", <<"a", "*", "b", "?", "c">>, FALSE)
        /\ ThePattern = <<"a", "\\", "%", "b">> =>
              ft_result.es_query = TermQuery("status", [json |-> "string", v |-> <<"a", "%", "b">>])

\* C5 for the patterns without a backslash: the tier and the two documented
\* examples hold of the code; the divergence is confined to escaped wildcards.
C5_UnescapedPatterns ==
    (LikeOnKeywordField /\ Find(ThePattern, "\\") = 0) =>
        /\ ~ft_result.thrown
        /\ ft_result.es_query.q = ExpectedTier(ThePattern)
        /\ ThePattern = <<"a", "b", "c", "%">> =>
              ft_result.es_query = PatternQuery("prefix", "status", <<"a", "b", "c">>, FALSE)
        /\ ThePattern = <<"a", "%", "b", "_", "c">> =>
              ft_result.es_query = PatternQuery("wildcard", "status", <<"a", "*", "b", "?", "c">>, FALSE)

\* The call translated LIKE or ILIKE with a constant pattern on a field that
\* supports pattern matching.
PatternMatchTranslated ==
    /\ SingleFilter
    /\ FilterDone
    /\ TheEntry.filter.filter_type = "EXPRESSION_FILTER"
    /\ TheEntry.filter.expr.type = "BOUND_FUNCTION"
    /\ TheEntry.filter.expr.name \in LikeFunctions
    /\ TheEntry.filter.expr.children[2].type = "VALUE_CONSTANT"

\* The clause carries "case_insensitive": true.
CarriesCaseInsensitive(clause) ==
    clause.q \in {"prefix", "wildcard"} /\ clause.case_insensitive

\* C6: every ILIKE ('~~*', ilike_escape) is translated to a query carrying
\* case_insensitive = true, in every tier; a LIKE never carries the flag.
C6_Original ==
    PatternMatchTranslated =>
        (CarriesCaseInsensitive(ft_result.es_query)
            <=> TheEntry.filter.expr.name \in {"~~*", "ilike_escape"})

\* C6 for the patterns with a wildcard character: holds of the code; the
\* divergence is confined to the exact-match tier.
C6_WildcardTiers ==
    (PatternMatchTranslated /\ (Find(ThePattern, "%") # 0 \/ Find(ThePattern, "_") # 0)) =>
        (CarriesCaseInsensitive(ft_result.es_query)
            <=> TheEntry.filter.expr.name \in {"~~*", "ilike_escape"})

\* The bind-schema columns that are output columns of the call.
OutputColumns ==
    {ft_column_ids[i + 1] : i \in OutputColumnIndices(ft_column_ids, ft_projection_ids)
                                    \cap (0..(Len(ft_column_ids) - 1))}

\* The field paths of the output columns that are regular mapped fields.
MappedOutputPaths ==
    {bind_field_paths[c] : c \in {o \in OutputColumns : o >= 1 /\ o <= Len(bind_field_paths)}}

UnmappedIsOutput == \E c \in OutputColumns : c > Len(bind_field_paths)

SourceListed == {ft_result.source.fields[i] : i \in 1..Len(ft_result.source.fields)}

\* C20: the request restricts _source to exactly the field paths of the output
\* columns that are regular mapped fields, so that filter-only columns and _id
\* are never fetched; only when _unmapped_ is an output column is no _source
\* restriction sent.
C20_Original ==
    (FilterDone /\ ~ft_result.thrown) =>
        IF UnmappedIsOutput THEN ~ft_result.source.present
        ELSE /\ ft_result.source.present
             /\ SourceListed = MappedOutputPaths

\* C20 as the code has it: a _source list, when sent, holds exactly the paths
\* of the mapped output columns (never _id, never a filter-only column); none
\* is sent when _unmapped_ is an output column, and none either when no output
\* column is a mapped field.
C20_SourceListWhenSent ==
    (FilterDone /\ ~ft_result.thrown) =>
        /\ ft_result.source.present <=> (~UnmappedIsOutput /\ MappedOutputPaths # {})
        /\ ft_result.source.present => SourceListed = MappedOutputPaths
        /\ "_id" \notin SourceListed

(***************************************************************************)
(* Properties of the scan engine                                           *)
(***************************************************************************)

\* Documents lo+1 .. hi in store order (empty when hi <= lo).
DocRange(lo, hi) == [i \in 1..(hi - lo) |-> lo + i]

\* The rows LIMIT l OFFSET o selects from n documents (l < 0: no LIMIT).
LimitOffsetRows(l, o, n) == DocRange(o, IF l < 0 THEN n ELSE Min(n, o + l))

\* The scan ran to exhaustion against a store that kept the cursor open and
\* answered every request, after the optimizer removed the LIMIT operator.
PushedScanExhausted ==
    /\ plan_limit.op = "removed"
    /\ sc_pc = "scanning"
    /\ finished
    /\ store_gives_token

\* C1: when the optimizer pushed constant LIMIT L (L >= 0, or no LIMIT) and
\* OFFSET O into the scan and removed the LIMIT operator, the exhausted scan
\* over N documents has emitted exactly documents O+1 .. min(N, O+L)
\* (O+1 .. N without LIMIT), each once, in store order.
C1_Original ==
    PushedScanExhausted =>
        emitted = LimitOffsetRows(LimitValue(plan_limit), OffsetValue(plan_limit), store_docs)

\* C1 restricted to the plans whose pushed LIMIT is not zero: holds of the code,
\* and locates the divergence in LIMIT 0 OFFSET O with O > 0.
C1_NonZeroLimit ==
    (PushedScanExhausted /\ LimitValue(plan_limit) # 0) =>
        emitted = LimitOffsetRows(LimitValue(plan_limit), OffsetValue(plan_limit), store_docs)

\* LIMIT 5 OFFSET 3 over 10 documents has produced rows 4 to 8.
C1_NonZeroLimitWitness ==
    /\ PushedScanExhausted
    /\ LimitValue(plan_limit) = 5
    /\ OffsetValue(plan_limit) = 3
    /\ store_docs = 10
    /\ emitted = <<4, 5, 6, 7, 8>>

\* C10 (as claimed): a scan that obtained a cursor token sends exactly one
\* close request for it, on entering Exhausted or at teardown, whichever comes
\* first, and never a second one; a scan without a token sends none.
C10_Original ==
    /\ Len(close_requests) <= 1
    /\ (scroll_id = 0 => close_requests = <<>>)
    /\ ((scroll_id # 0 /\ (finished \/ sc_torn_down)) => close_requests = <<scroll_id>>)

\* C10 (amended): the close request is sent by the teardown of the scan state
\* and only there: none is sent while the state is alive (Exhausted or not),
\* exactly one for the scan's token once it is torn down, and none at all for a
\* scan that never obtained a token.
C10_ClosedOnceAtTeardown ==
    /\ Len(close_requests) <= 1
    /\ (scroll_id = 0 => close_requests = <<>>)
    /\ (~sc_torn_down => close_requests = <<>>)
    /\ ((scroll_id # 0 /\ sc_torn_down) => close_requests = <<scroll_id>>)

\* C10 witness: a scan that paged through the cursor, became Exhausted, and was
\* torn down with one close request.
C10_Witness ==
    /\ finished
    /\ sc_torn_down
    /\ scroll_id # 0
    /\ Len(page_requests) >= 2
    /\ close_requests = <<scroll_id>>

\* C11: Exhausted is terminal.  A step taken while the scan is finished leaves
\* it finished, hands no row to the engine and sends no search or scroll
\* request; a pull that found the scan finished returned zero rows.
C11_ExhaustedTerminal ==
    [][finished =>
          /\ finished'
          /\ emitted' = emitted
          /\ page_requests' = page_requests
          /\ (sc_last_pull' # sc_last_pull =>
                 sc_last_pull' = [at_finished |-> TRUE, rows |-> 0, requests |-> 0])]_vars

\* C11 witness: a pull was made on a finished scan that had emitted rows and
\* still holds a cursor token.
C11_Witness ==
    /\ finished
    /\ sc_last_pull.at_finished
    /\ emitted # <<>>
    /\ scroll_id # 0
    /\ sc_pc = "scanning"

\* C19: with a pushed limit L > 0 and offset O >= 0 the first page asks for
\* L + O rows when L + O <= 5000 and for 1000 rows otherwise; no scroll
\* continuation is requested once L rows have been emitted; and when the store
\* holds at least L + O matching documents, serves pages of the requested size
\* and L + O <= 5000, the scan sends exactly one page request.
C19_PageSizePolicy ==
    (plan_limit.op = "removed" /\ bind_limit > 0 /\ sc_pc \in {"scanning", "failed"}) =>
        /\ Len(page_requests) >= 1
        /\ page_requests[1].kind = "search"
        /\ page_requests[1].size = IF bind_limit + bind_offset <= 5000
                                   THEN bind_limit + bind_offset ELSE 1000
        /\ \A i \in 2..Len(page_requests) :
              /\ page_requests[i].kind = "scroll"
              /\ page_requests[i].row < bind_limit
        /\ (/\ store_docs >= bind_limit + bind_offset
            /\ store_page_cap = 0
            /\ bind_limit + bind_offset <= 5000) => Len(page_requests) = 1

\* LIMIT 5 OFFSET 3 over 10 documents: one request for 8 rows, rows 4..8
\* emitted, and the scan Exhausted.
C19_Witness ==
    /\ finished
    /\ plan_limit.op = "removed"
    /\ bind_limit = 5
    /\ bind_offset = 3
    /\ store_docs = 10
    /\ store_page_cap = 0
    /\ emitted = <<4, 5, 6, 7, 8>>
    /\ Len(page_requests) = 1
    /\ page_requests[1].size = 8

\* LIMIT 5000 OFFSET 1: the first page asks for the default 1000 rows.
C19_LargeLimitCase ==
    /\ finished
    /\ plan_limit.op = "removed"
    /\ bind_limit = 5000
    /\ bind_offset = 1
    /\ Len(page_requests) >= 1
    /\ page_requests[1].size = 1000

(***************************************************************************)
(* Properties of schema resolution                                         *)
(***************************************************************************)

ResolveDone == rs_pc = "done"

\* The cleanup requests a resolution sent.
ClearRequests ==
    {i \in 1..Len(rs_requests) : rs_requests[i].kind = "clear"}

\* The schema part of a resolution result.
SchemaOf(result) ==
    [all_column_names |-> result.all_column_names,
     all_column_types |-> result.all_column_types,
     field_paths |-> result.field_paths,
     es_types |-> result.es_types]

\* C12: closing a cursor is one DELETE attempt, never retried, and its outcome
\* is ignored by the scan teardown and by schema sampling: the teardown step
\* that sends it raises nothing and leaves the rows handed out untouched, and
\* a resolution whose cleanup failed returns the schema it returns when the
\* cleanup succeeds.
C12_CloseFireAndForget ==
    /\ [](\A i \in 1..Len(close_responses) : Len(close_responses[i]) = 1)
    /\ [](\A i \in ClearRequests : rs_requests[i].attempts = 1)
    /\ [][close_responses' # close_responses =>
             /\ sc_pc' = sc_pc
             /\ emitted' = emitted
             /\ finished' = finished]_vars
    /\ [](ResolveDone /\ ClearRequests # {} =>
             /\ ~rs_result.thrown
             /\ SchemaOf(rs_result) =
                   SchemaOf(ResolveMiss(rs_mapping, rs_root, rs_sample_size, 200).result))

\* C12 witness: the destructor's DELETE was answered 503 after the scan had
\* emitted rows.
C12_Witness ==
    /\ sc_torn_down
    /\ emitted # <<>>
    /\ Len(close_responses) = 1
    /\ close_responses[1][1].status_code = 503

\* The same case in schema sampling: the cleanup of a sampling cursor that had
\* detected an array was answered 503.
C12_SamplingCase ==
    /\ ResolveDone
    /\ rs_sample.array_fields # {}
    /\ \E i \in ClearRequests : rs_requests[i].status = 503

\* A sampled document held an array at path.
ArraySampledAt(path) ==
    \E d \in rs_sample.sampled : path \in rs_docs[d].arrays

IsGeo(es_type) == es_type \in {"geo_point", "geo_shape"}

\* C15: after resolution the column of every mapped path that is not geo_point
\* or geo_shape is list-typed if and only if a sampled document held an array
\* at the path; the mapping alone never makes a column list-typed.
C15_Original ==
    (ResolveDone /\ ~rs_result.thrown) =>
        \A i \in 1..Len(rs_result.field_paths) :
            ~IsGeo(rs_result.es_types[i]) =>
                (rs_result.all_column_types[i].id = "LIST"
                    <=> ArraySampledAt(rs_result.field_paths[i]))

\* C15 for the fields that are not declared "nested" without properties: holds
\* of the code, and geo fields are never wrapped.
C15_ExceptBareNested ==
    (ResolveDone /\ ~rs_result.thrown) =>
        \A i \in 1..Len(rs_result.field_paths) :
            /\ (~IsGeo(rs_result.es_types[i]) /\ rs_result.es_types[i] # "nested") =>
                  (rs_result.all_column_types[i].id = "LIST"
                      <=> ArraySampledAt(rs_result.field_paths[i]))
            /\ IsGeo(rs_result.es_types[i]) => rs_result.all_column_types[i].id # "LIST"

\* The page requests (initial search and scroll continuations) of the sampling
\* pass, in the order sent.
SamplingPageRequests ==
    SelectSeq(rs_requests, LAMBDA r : r.kind \in {"search", "scroll"})

\* The sampling pass ran into its fault: the page request the fault is attached
\* to was sent.
SamplingFaultHit ==
    /\ ResolveDone
    /\ rs_mapping = "ok"
    /\ rs_fault.kind # "none"
    /\ Len(SamplingPageRequests) >= rs_fault.n

\* C18 (as claimed): when the sampling search fails, or a later sampling page
\* cannot be fetched or parsed, resolution still returns the schema of the
\* mapping without raising; a column differs from its mapped type only by being
\* list-wrapped because a document sampled before the failure held an array at
\* its path, and no residual content is reported.
C18_Original ==
    SamplingFaultHit =>
        LET merged == MergeMappingsFromIndices(rs_root)
        IN /\ ~rs_result.thrown
           /\ rs_result.all_column_names = merged.all_column_names
           /\ rs_result.field_paths = merged.field_paths
           /\ rs_result.es_types = merged.es_types
           /\ \A i \in 1..Len(merged.field_paths) :
                 \/ rs_result.all_column_types[i] = merged.all_column_types[i]
                 \/ /\ rs_result.all_column_types[i] = ListOf(merged.all_column_types[i])
                    /\ ArraySampledAt(merged.field_paths[i])
           /\ ~rs_sample.has_unmapped_fields

\* C18 (amended): as above, except that residual content found in a document
\* sampled before the failure stays reported; after a failed search nothing is
\* wrapped and no residual content is reported.
C18_SamplingFailureNonFatal ==
    SamplingFaultHit =>
        LET merged == MergeMappingsFromIndices(rs_root)
        IN /\ ~rs_result.thrown
           /\ rs_result.all_column_names = merged.all_column_names
           /\ rs_result.field_paths = merged.field_paths
           /\ rs_result.es_types = merged.es_types
           /\ \A i \in 1..Len(merged.field_paths) :
                 \/ rs_result.all_column_types[i] = merged.all_column_types[i]
                 \/ /\ rs_result.all_column_types[i] = ListOf(merged.all_column_types[i])
                    /\ ArraySampledAt(merged.field_paths[i])
           /\ rs_sample.has_unmapped_fields =>
                 \E d \in rs_sample.sampled : rs_docs[d].unmapped
           /\ rs_fault.n = 1 =>
                 /\ rs_sample = EmptySample
                 /\ rs_result.all_column_types = merged.all_column_types

\* The sampling search failed although the first document of the store holds an
\* array at f, and resolution returned the unwrapped schema.
C18_Witness ==
    /\ SamplingFaultHit
    /\ rs_fault = [kind |-> "fail", n |-> 1]
    /\ Len(rs_docs) >= 1
    /\ rs_docs[1] = Document(TRUE, {"f"}, FALSE)
    /\ ~rs_result.thrown
    /\ Len(rs_result.all_column_types) = 2
    /\ rs_result.all_column_types[1] = VARCHAR

\* The second sampling page failed after the first page showed an array at f:
\* f is list-wrapped, g is not although a later document holds an array there.
C18_LaterPageCase ==
    /\ SamplingFaultHit
    /\ rs_fault.n = 2
    /\ Len(rs_docs) >= 2
    /\ rs_docs[1] = Document(TRUE, {"f"}, FALSE)
    /\ rs_docs[2] = Document(TRUE, {"g"}, FALSE)
    /\ ~rs_result.thrown
    /\ Len(rs_result.all_column_types) = 2
    /\ rs_result.all_column_types[1] = ListOf(VARCHAR)
    /\ rs_result.all_column_types[2] = VARCHAR

\* The second sampling page failed after the first page showed a document with
\* a field the mapping does not declare: residual content stays reported.
C18_ResidualKept ==
    /\ SamplingFaultHit
    /\ rs_fault = [kind |-> "fail", n |-> 2]
    /\ ~rs_result.thrown
    /\ rs_sample.has_unmapped_fields
    /\ \E d \in rs_sample.sampled : rs_docs[d].unmapped

(***************************************************************************)
(* Properties of the bind cache                                            *)
(***************************************************************************)

\* Thread t has returned from a call without raising.
Returned(t) == th[t].pc = "idle" /\ th[t].calls > 0 /\ ~th[t].thrown

\* C13: whatever the interleaving with Put and Clear calls of other threads, the
\* data a resolver reads from a cache hit never comes from an entry that has
\* been erased or is being overwritten.
C13_Original ==
    \A t \in Threads : ~th[t].dangling /\ ~th[t].racy

\* The lookup itself is under the mutex: no thread is inside Get or Clear while
\* another is inside Put, and a pointer is handed out only for a live node.
C13_LookupUnderLock ==
    /\ mutex_ # 0 => th[mutex_].pc = "put_types"
    /\ \A t \in Threads :
          (th[t].pc = "copy_names" /\ ~th[t].cleared /\ ~Overwritten(t)) => ~Dangling(t)

\* C14: between two clears the schema of a key is created at most once, and a
\* resolve that starts after it was stored returns that schema without sending
\* a request, unless the cache was cleared meanwhile.
C14_Original ==
    /\ \A k \in CacheKeys : created_count[k] <= 1
    /\ \A t \in Threads :
          (Returned(t) /\ th[t].expected # 0 /\ ~th[t].cleared) =>
              /\ th[t].requests = 0
              /\ th[t].all_column_names = th[t].expected
              /\ th[t].all_column_types = th[t].expected

\* What holds of the code: a resolve that finds an entry sends no request, only
\* a resolve that found none stores one, and a clear empties the whole cache.
C14_HitSendsNothing ==
    /\ \A t \in Threads :
          /\ th[t].hit => th[t].requests = 0
          /\ th[t].pc \in {"fetch", "sample_search", "sample_next", "sample_clear",
                          "put_names", "put_types"} => ~th[t].hit
    /\ \A k \in CacheKeys : created_count[k] = 0 /\ mutex_ = 0 => Find_(k) = 0

(***************************************************************************)
(* Properties of the retry client                                          *)
(***************************************************************************)

\* The transient outcomes as the documentation lists them.
TransientStatuses == {429, 500, 502, 503, 504}

IsTransientFailure(r) ==
    (~r.success) /\ (r.status_code = 0 \/ r.status_code \in TransientStatuses)

AllTransientFailures(log, n) == \A i \in 1..n : IsTransientFailure(log[i])

\* C7: with max_retries = M, when attempts 1..j (1 <= j <= M) all fail with a
\* retryable outcome the call does not return before attempt j+1 is made, and
\* when that attempt answers 2xx the call returns success with that attempt's
\* status and body and an empty error message (no retry annotation).
C7_SuccessAfterRetries ==
    rq_pc = "returned" =>
        /\ \A j \in 1..max_retries :
              (Len(rq_log) >= j /\ AllTransientFailures(rq_log, j)) => Len(rq_log) >= j + 1
        /\ (Len(rq_log) >= 2 /\ Last(rq_log).status_code \in 200..299) =>
              /\ response.success
              /\ response.status_code = Last(rq_log).status_code
              /\ response.body = BodyOf(Len(rq_log))
              /\ response.error_message = ""

\* C7 witness: three 503 replies, then a 200, with max_retries = 3.
C7_Witness ==
    /\ rq_pc = "returned"
    /\ max_retries = 3
    /\ Len(rq_log) = 4
    /\ \A i \in 1..3 : rq_log[i].status_code = 503
    /\ rq_log[4].status_code = 200
    /\ response.success

\* C8 (as claimed): when every attempt fails with a retryable outcome the call
\* makes exactly max_retries + 1 attempts and returns the last failure with
\* " (after <max_retries> retries)" appended, for every max_retries >= 0.
C8_Original ==
    (rq_pc = "returned" /\ max_retries >= 0 /\ rq_log # <<>>
        /\ AllTransientFailures(rq_log, Len(rq_log))) =>
        /\ Len(rq_log) = max_retries + 1
        /\ response = [Last(rq_log) EXCEPT !.error_message =
                          @ \o " (after " \o ToString(max_retries) \o " retries)"]

\* C8 (amended): as above for max_retries >= 1; with max_retries = 0 the single
\* failure is returned as it is, without a retry annotation.
C8_ExhaustionAnnotated ==
    (rq_pc = "returned" /\ max_retries >= 0 /\ rq_log # <<>>
        /\ AllTransientFailures(rq_log, Len(rq_log))) =>
        /\ Len(rq_log) = max_retries + 1
        /\ ~response.success
        /\ response.status_code = Last(rq_log).status_code
        /\ response.body = Last(rq_log).body
        /\ response.error_message =
              IF max_retries >= 1
              THEN Last(rq_log).error_message \o " (after " \o ToString(max_retries) \o " retries)"
              ELSE Last(rq_log).error_message

\* C8 witness: max_retries = 2, three transient failures, annotated result.
C8_Witness ==
    /\ rq_pc = "returned"
    /\ max_retries = 2
    /\ Len(rq_log) = 3
    /\ AllTransientFailures(rq_log, 3)
    /\ response.error_message = "HTTP 503: body3 (after 2 retries)"

\* C9: an attempt is followed by another one only if it failed with 429, 500,
\* 502, 503, 504 or below the HTTP layer; an attempt failing with any other
\* status is the last one: the call has returned and no sleep follows it.
C9_OnlyTransientRetried ==
    \A i \in 1..Len(rq_log) :
        /\ i < Len(rq_log) => IsTransientFailure(rq_log[i])
        /\ ((~rq_log[i].success) /\ ~IsTransientFailure(rq_log[i])) =>
              /\ i = Len(rq_log)
              /\ rq_pc = "returned"
              /\ Len(rq_sleeps) = i - 1
              /\ response.status_code = rq_log[i].status_code

\* C9 witness: a 404 on the first attempt, returned with no sleep although
\* retries were available.
C9_Witness ==
    /\ rq_pc = "returned"
    /\ max_retries >= 1
    /\ Len(rq_log) = 1
    /\ rq_log[1].status_code = 404
    /\ rq_sleeps = <<>>
    /\ response.error_message = "HTTP 404: body1"

\* The response returned is that of the last attempt made (the retry
\* annotation apart).
ReturnsLastAttempt ==
    /\ Len(rq_log) >= 1
    /\ response.success = Last(rq_log).success
    /\ response.status_code = Last(rq_log).status_code
    /\ response.body = Last(rq_log).body

\* C28: for every value of max_retries, zero and negative ones included, the
\* call makes at least one HTTP attempt and returns the response of an attempt
\* that was made.
C28_Original ==
    rq_pc = "returned" => ReturnsLastAttempt

\* C28 for max_retries >= 0, which holds of the code.
C28_NonNegativeRetries ==
    (rq_pc = "returned" /\ max_retries >= 0) => ReturnsLastAttempt

\* PerformRequestWithRetry with tracing disabled, as a function of the
\* outcomes of its attempts from the n-th on: the response returned and the
\* number of attempts made (0 attempts when the outcomes end before it returns).
RECURSIVE UntracedRun(_, _, _, _)
UntracedRun(method, maxr, outcomes, n) ==
    IF n > Len(outcomes)
    THEN [response |-> UnassignedResponse, attempts |-> 0]
    ELSE LET resp == LoggedResponse(method, outcomes[n], n, FALSE, 0)
         IN IF resp.success
            THEN [response |-> resp, attempts |-> n]
            ELSE IF RetryBreak(ShouldRetry(resp), n - 1, maxr)
                 THEN [response |-> Annotate(resp, n - 1), attempts |-> n]
                 ELSE UntracedRun(method, maxr, outcomes, n + 1)

\* The status an attempt with this outcome received (0 when it received none).
StatusReceived(outcome) == IF outcome = CaughtException THEN 0 ELSE outcome

\* C21: with HTTP tracing enabled every attempt made writes exactly one trace
\* record (carrying the status received, 0 when the attempt failed below the
\* HTTP layer), the call returns whenever the untraced call does, and the
\* response returned and the number of attempts made are those of the run with
\* tracing disabled over the same outcomes; a response whose members were never
\* assigned is identical to nothing.
C21_Original ==
    /\ should_log =>
          /\ Len(http_log) = Len(rq_outcomes)
          /\ \A i \in 1..Len(http_log) :
                /\ http_log[i].type = rq_method
                /\ http_log[i].status = StatusReceived(rq_outcomes[i])
    /\ rq_pc # "thrown"
    /\ rq_pc = "returned" =>
          /\ Len(rq_outcomes) = UntracedRun(rq_method, max_retries, rq_outcomes, 1).attempts
          /\ rq_log # <<>>
          /\ response = UntracedRun(rq_method, max_retries, rq_outcomes, 1).response

\* What holds of the code: with tracing disabled nothing is written whatever
\* the logger; with tracing enabled, in a call that made an attempt and in
\* which no log write threw, every attempt wrote one record with the status it
\* received and the response and the number of attempts are those of the
\* untraced run; and the number of attempts of a call that returns is that of
\* the untraced run even when log writes throw.
C21_ReliableLogger ==
    /\ ~should_log => http_log = <<>> /\ rq_pc # "thrown"
    /\ (\A i \in 1..Len(rq_faults) : rq_faults[i] = 0) =>
          /\ rq_pc # "thrown"
          /\ should_log =>
                /\ Len(http_log) = Len(rq_outcomes)
                /\ \A i \in 1..Len(http_log) :
                      /\ http_log[i].type = rq_method
                      /\ http_log[i].status = StatusReceived(rq_outcomes[i])
          /\ (rq_pc = "returned" /\ rq_log # <<>>) =>
                response = UntracedRun(rq_method, max_retries, rq_outcomes, 1).response
    /\ rq_pc = "returned" =>
          Len(rq_outcomes) = UntracedRun(rq_method, max_retries, rq_outcomes, 1).attempts

\* A traced call that got a 200 while the log write after the transfer threw:
\* it returns success with an error message, and the record says status 0.
C21_LogWriteThrew ==
    /\ rq_pc = "returned"
    /\ should_log
    /\ rq_outcomes = <<200>>
    /\ rq_faults = <<1>>
    /\ response.success
    /\ response.error_message = "Exception during HTTP request: what"
    /\ http_log = <<[type |-> rq_method, status |-> 0]>>
(***************************************************************************)
(* Properties: cache key                                                   *)
(***************************************************************************)

\* The two calls agree on host, port, index, base query and sample size.
SameKeyFields ==
    /\ key_calls[1].config.host = key_calls[2].config.host
    /\ key_calls[1].config.port = key_calls[2].config.port
    /\ key_calls[1].index = key_calls[2].index
    /\ key_calls[1].base_query = key_calls[2].base_query
    /\ key_calls[1].sample_size = key_calls[2].sample_size

\* The two calls agree on credentials and SSL flags.
SameConnection ==
    /\ key_calls[1].config.username = key_calls[2].config.username
    /\ key_calls[1].config.password = key_calls[2].config.password
    /\ key_calls[1].config.use_ssl = key_calls[2].config.use_ssl
    /\ key_calls[1].config.verify_ssl = key_calls[2].config.verify_ssl

\* C22: two calls of BuildBindCacheKey that agree on host, port, index, base
\* query and sample size build the same key, whatever their credentials, SSL
\* flags, timeout and retries are.
C22_Original == (key_built # <<>> /\ SameKeyFields) => key_built[1] = key_built[2]

\* C22 as the code has it: the key is the same exactly when the calls agree on
\* host, port, index, base query, sample size, credentials and SSL flags;
\* timeout and retries do not enter it.
C22_KeyParts ==
    key_built # <<>> => ((key_built[1] = key_built[2]) <=> (SameKeyFields /\ SameConnection))
(***************************************************************************)
(* Properties: text fields of a multi-index schema                         *)
(***************************************************************************)

\* Every path of a property list with its definition.
RECURSIVE PathDefs(_, _)
PathDefs(properties, prefix) ==
    UNION {LET full_path == IF prefix = "" THEN properties[i].name
                            ELSE prefix \o "." \o properties[i].name
           IN {<<full_path, properties[i].def>>}
              \cup (IF properties[i].def.has_properties
                    THEN PathDefs(properties[i].def.properties, full_path)
                    ELSE {}) : i \in 1..Len(properties)}

\* The definitions the matched indices give path.
DefsOf(path) ==
    {pd[2] : pd \in {qd \in UNION {PathDefs(mg_root[n].properties, "") : n \in 1..Len(mg_root)} :
                        qd[1] = path}}

IsTextWithoutKeyword(def) == def.type = "text" /\ ~def.keyword_subfield

\* A comparison, an IN list and a LIKE pattern on path all raise the
\* unsafe-pushdown error under the resolved schema.
PushdownRefused(path) ==
    /\ TranslateConstantComparison(ConstantFilter("COMPARE_EQUAL", VarcharValue("x")), path,
                                   path \in mg_text.text_fields,
                                   path \in mg_text.text_fields_with_keyword)
          = ThrowUnsafe(path)
    /\ TranslateInFilter(InFilter(<<VarcharValue("x"), VarcharValue("y")>>), path,
                         path \in mg_text.text_fields,
                         path \in mg_text.text_fields_with_keyword)
          = ThrowUnsafe(path)
    /\ TranslateLikePattern(path, "x%", path \in mg_text.text_fields,
                            path \in mg_text.text_fields_with_keyword, FALSE)
          = ThrowUnsafe(path)

TextPaths == {"f", "f.a"}

\* C23: when the mappings of the matched indices merge and some index
\* declares a path as text without a .keyword sub-field, a comparison, IN or
\* LIKE on that path raises the unsafe-pushdown error.
C23_Original ==
    (mg_pc = "done" /\ ~mg_result.thrown) =>
        \A path \in TextPaths :
            (\E def \in DefsOf(path) : IsTextWithoutKeyword(def)) => PushdownRefused(path)

\* C23 where the indices agree: when every index declaring the path declares
\* it as text without a .keyword sub-field, the pushdown is refused.
C23_AllIndicesAgree ==
    (mg_pc = "done" /\ ~mg_result.thrown) =>
        \A path \in TextPaths :
            (DefsOf(path) # {} /\ \A def \in DefsOf(path) : IsTextWithoutKeyword(def))
                => PushdownRefused(path)
(***************************************************************************)
(* Properties: prefix, suffix and contains                                 *)
(***************************************************************************)

\* The call translated prefix, suffix or contains with a constant string on
\* the keyword field `status`.
StringFunctionOnKeywordField ==
    /\ SingleFilter
    /\ EntryColumn(TheEntry) = "status"
    /\ TheEntry.filter.filter_type = "EXPRESSION_FILTER"
    /\ TheEntry.filter.expr.type = "BOUND_FUNCTION"
    /\ TheEntry.filter.expr.name \in StringFunctions
    /\ TheEntry.filter.expr.children[2].type = "VALUE_CONSTANT"

\* The Elasticsearch wildcard pattern matching exactly the string str: the
\* characters * ? and \ are preceded by a backslash.
RECURSIVE EscapeWildcard(_)
EscapeWildcard(str) ==
    IF str = <<>> THEN <<>>
    ELSE (IF Head(str) \in {"*", "?", "\\"} THEN <<"\\", Head(str)>> ELSE <<Head(str)>>)
         \o EscapeWildcard(Tail(str))

\* The clauses that match the string str literally at the start, at the end
\* or anywhere in the value of es_field.
LiteralClauses(name, es_field, str) ==
    IF name = "prefix"
    THEN {PatternQuery("prefix", es_field, str, FALSE),
          PatternQuery("wildcard", es_field, EscapeWildcard(str) \o <<"*">>, FALSE)}
    ELSE IF name = "suffix"
    THEN {PatternQuery("wildcard", es_field, <<"*">> \o EscapeWildcard(str), FALSE)}
         \cup (IF str = <<>> THEN {PatternQuery("prefix", es_field, <<>>, FALSE)} ELSE {})
    ELSE {PatternQuery("wildcard", es_field, <<"*">> \o EscapeWildcard(str) \o <<"*">>, FALSE)}

\* C24: prefix(col, s), suffix(col, s) and contains(col, s) with a constant s
\* are translated to a clause that matches s literally, whatever characters s
\* holds ('%', '_' and '\' included).
C24_Original ==
    StringFunctionOnKeywordField =>
        /\ ~ft_result.thrown
        /\ ft_result.es_query \in LiteralClauses(TheEntry.filter.expr.name, "status", ThePattern)

\* C24 for the strings without '%', '_' and '\': holds of the code.
C24_PlainStrings ==
    (StringFunctionOnKeywordField
        /\ Find(ThePattern, "%") = 0 /\ Find(ThePattern, "_") = 0 /\ Find(ThePattern, "\\") = 0) =>
        /\ ~ft_result.thrown
        /\ ft_result.es_query \in LiteralClauses(TheEntry.filter.expr.name, "status", ThePattern)
(***************************************************************************)
(* Properties: base query                                                  *)
(***************************************************************************)

\* The query sent is the base query itself, or bool.must of the base query
\* and the translated filters.
ContainsBaseQuery ==
    \/ ft_result.query = [q |-> "raw", json |-> ft_base_query]
    \/ /\ ~IsNullptr(ft_result.es_query)
       /\ ft_result.query =
              [q |-> "bool_must",
               clauses |-> <<[q |-> "raw", json |-> ft_base_query], ft_result.es_query>>]

\* C25: with a non-empty base query, the call either fails or sends a query
\* that contains the base query (alone, or under bool.must with the filter
\* clause); a base query that does not parse makes the call fail.
C25_Original ==
    (ft_pc = "done" /\ ft_base_query # "") =>
        /\ ~ft_result.thrown => ContainsBaseQuery
        /\ IsNullptr(ParseBaseQuery(ft_base_query)) => ft_result.thrown

\* C25 for the base queries that parse: holds of the code.
C25_ParseableBaseQuery ==
    (ft_pc = "done" /\ ft_base_query # "" /\ ~IsNullptr(ParseBaseQuery(ft_base_query))
        /\ ~ft_result.thrown) => ContainsBaseQuery
(***************************************************************************)
(* Properties: the fallback column                                         *)
(***************************************************************************)

\* The mapping declared no field: the schema is _id, _source, _unmapped_.
FallbackSchema == ft_all_column_names = <<"_source">>

\* The fields of a document the store returns in a hit: all of them without
\* a "_source" member in the request, those listed otherwise.
ReturnedSource(document, source) ==
    IF source.present
    THEN document \cap {source.fields[i] : i \in 1..Len(source.fields)}
    ELSE document

\* A document of an index without mapped fields.
SomeDocument == {"a", "b"}

\* C26: under the fallback schema, a scan with the column _source among its
\* output columns sends a request without "_source" restriction, so that the
\* column receives the complete document.
C26_Original ==
    (ft_pc = "done" /\ FallbackSchema /\ 1 \in OutputColumns) =>
        /\ ~ft_result.source.present
        /\ ReturnedSource(SomeDocument, ft_result.source) = SomeDocument

\* C26 for the scans that also output _unmapped_ (SELECT *): holds of the code.
C26_WithUnmappedColumn ==
    (ft_pc = "done" /\ FallbackSchema /\ 1 \in OutputColumns /\ 2 \in OutputColumns) =>
        /\ ~ft_result.source.present
        /\ ReturnedSource(SomeDocument, ft_result.source) = SomeDocument
(***************************************************************************)
(* Properties: the cursor token of the scan                                *)
(***************************************************************************)

\* The _scroll_id of the most recent successful page response when the i-th
\* page request is sent (i >= 2): the search answers with token 1 and, when
\* the store rotates its tokens, every scroll response carries the next one.
LatestTokenBefore(i) == IF store_rotates THEN i - 1 ELSE 1

\* Every scroll request and the close request carry the latest token.
CarriesLatestToken ==
    /\ \A i \in 2..Len(page_requests) :
          page_requests[i].kind = "scroll" => page_requests[i].token = LatestTokenBefore(i)
    /\ \A i \in 1..Len(close_requests) : close_requests[i] = store_token

\* C27: every scroll request and the close request of a scan carry the
\* _scroll_id returned by the most recent successful page response.
C27_Original == CarriesLatestToken

\* C27 for stores that return the same _scroll_id with every page: holds of
\* the code.
C27_StableToken == ~store_rotates => CarriesLatestToken
(***************************************************************************)
(* Properties: the cursor of schema sampling                               *)
(***************************************************************************)

\* The pages of the sampling cursor from which a token was obtained: those
\* answered successfully with a body that parses, by a store that hands out
\* tokens.  Page n carries token n.
ObtainedTokens ==
    {n \in 1..Len(SamplingPageRequests) :
        /\ rs_gives_token
        /\ SamplingPageRequests[n].status = 200
        /\ ~(rs_fault.kind = "unparseable" /\ rs_fault.n = n)}

\* C30: whenever schema sampling obtained a token from a page response, it
\* sends exactly one close request before it returns, as its last request and
\* for the token obtained last, whatever ended the sampling (sample size
\* reached, everything detected, empty page, unparseable page, failed refresh).
C30_CursorReleased ==
    (ResolveDone /\ ~rs_result.thrown /\ ObtainedTokens # {}) =>
        /\ Cardinality(ClearRequests) = 1
        /\ rs_requests[Len(rs_requests)].kind = "clear"
        /\ \A n \in ObtainedTokens : rs_requests[Len(rs_requests)].token >= n
        /\ rs_requests[Len(rs_requests)].token \in ObtainedTokens

\* C30 witness: the second page could not be parsed after a first page with
\* documents; the close request carries the token of the first page.
C30_Witness ==
    /\ ResolveDone
    /\ ~rs_result.thrown
    /\ rs_fault = [kind |-> "unparseable", n |-> 2]
    /\ Len(SamplingPageRequests) = 2
    /\ ObtainedTokens = {1}
    /\ rs_requests[Len(rs_requests)].kind = "clear"
    /\ rs_requests[Len(rs_requests)].token = 1

\* C30 for a sampling that ends on an empty third page: the close request
\* carries the token of that page, not an earlier one.
C30_ThreePages ==
    /\ ResolveDone
    /\ ~rs_result.thrown
    /\ rs_fault.kind = "none"
    /\ Len(SamplingPageRequests) = 3
    /\ ObtainedTokens = {1, 2, 3}
    /\ rs_requests[Len(rs_requests)].token = 3
(***************************************************************************)
(* Properties: schemas resolved while sampling failed                      *)
(***************************************************************************)

\* The schema has the columns of the bare mapping: no document was sampled
\* (the sampling search had failed or had found nothing).
Unsampled(schema) == schema \in 1..MaxStoreVersion

\* C29: a schema resolved while sampling failed (without sampled documents
\* when it was the search that failed) is stored in the cache, and a
\* resolve with the same key that starts after it was stored returns it
\* without sending a request, unless the cache was cleared meanwhile.
C29_Original ==
    \A t \in Threads :
        /\ (th[t].pc = "put_types" /\ th[t].sampling_failed) =>
               /\ th[t].scrolls = 0 => Unsampled(th[t].schema)
               /\ Find_(th[t].key) = th[t].cached
               /\ cache_[th[t].cached].all_column_names = th[t].schema
        /\ (Returned(t) /\ Unsampled(th[t].expected) /\ ~th[t].cleared) =>
               /\ th[t].requests = 0
               /\ th[t].all_column_names = th[t].expected
               /\ th[t].all_column_types = th[t].expected

\* What holds of the code: the resolve whose sampling failed stores its
\* schema, a resolve that finds the entry sends no request, and it returns the
\* schema of the entry when the entry was neither written nor erased since.
C29_StoredLikeAnyOther ==
    \A t \in Threads :
        /\ (th[t].pc = "put_types" /\ th[t].sampling_failed) =>
               /\ th[t].scrolls = 0 => Unsampled(th[t].schema)
               /\ Find_(th[t].key) = th[t].cached
               /\ cache_[th[t].cached].all_column_names = th[t].schema
        /\ th[t].hit => th[t].requests = 0
        /\ (Returned(t) /\ th[t].hit /\ ~Dangling(t) /\ ~Overwritten(t)) =>
               /\ th[t].all_column_names = cache_[th[t].cached].all_column_names
               /\ th[t].all_column_types = cache_[th[t].cached].all_column_types
====
